---- MODULE Spec2Model ----
(***************************************************************************)
(* PyWO core: a model of the EventDispatcher (pywo/core/dispatch.py) and   *)
(* of the Window accessors of pywo/core/windows.py.                        *)
(*                                                                         *)
(* The dispatcher is modelled as two threads sharing self.__handlers: one  *)
(* caller thread issuing register/unregister calls, and the dispatch       *)
(* thread running EventDispatcher.run.  A step of either thread is one     *)
(* access to the shared dictionary, which is what the interpreter makes    *)
(* atomic; the code takes no lock.                                         *)
(***************************************************************************)
EXTENDS Integers, Sequences, FiniteSets, TLC

(***************************************************************************)
(* Bounds of the model.                                                    *)
(***************************************************************************)
MaxWindow == 1        \* window ids are 0..MaxWindow
MaxHandler == 4       \* handler objects are 1..MaxHandler
MaxType == 2          \* event types handlers declare are 1..MaxType
MaxEventType == 1     \* event types the display delivers are 1..MaxEventType

(***************************************************************************)
(* Values.                                                                 *)
(***************************************************************************)
MaxCard == 1          \* a CARDINAL of a property value is 0..MaxCard
MaxPropLen == 4       \* a property value holds at most MaxPropLen items
MaxCoord == 1         \* a window's x and y are -MaxCoord..MaxCoord
MaxSize == 2          \* a window's width and height are 1..MaxSize
MaxBorder == 1        \* a window's border_width is 0..MaxBorder
MaxEdge == 2          \* a rectangle's x, width and height are at most MaxEdge
MaxScreens == 2       \* screen_geometries() answers at most MaxScreens screens
MaxClients == 2       \* the client list holds at most MaxClients windows
MaxDesktop == 1       \* desktops are 0 .. MaxDesktop
QueryLen == 2         \* letters of the query
MaxSent == 2          \* at most MaxSent client messages are sent
MaxSections == 3      \* a configuration holds at most MaxSections sections
MaxChain == 3         \* a window has at most MaxChain - 1 ancestors below the root
MaxLayout == 3        \* a reported layout has at most MaxLayout columns and rows
MaxDesktops == 5      \* there are 1 .. MaxDesktops desktops

RootId == 0         \* id of display.screen().root
NoField == -1       \* an addressing field the event does not have; None

WindowIds == 0..MaxWindow
Handlers == 1..MaxHandler
EventTypes == 1..MaxType

\* handler.types and handler.masks of the handler objects callers register:
\* the last handler declares every event type, the one before it the last
\* type alone, the others the first type alone
HandlerTypes(h) == IF h = MaxHandler THEN EventTypes
                   ELSE IF h + 1 = MaxHandler THEN {MaxType}
                   ELSE {1}
HandlerMasks(h) == {0, h}

\* the handlers all of whose event types the display delivers
DeliveredTypes == { t \in EventTypes : t <= MaxEventType }
DispatchHandlers == { h \in Handlers : HandlerTypes(h) \subseteq DeliveredTypes }

\* Raw events: a type tag and the addressing fields the type carries
\* (parent alone, parent and window, event and window, window alone).
Events ==
    { [type |-> t, parent |-> p, event |-> NoField, window |-> w] :
          t \in DeliveredTypes,
          p \in WindowIds, w \in WindowIds \cup {NoField} }
    \cup
    { [type |-> t, parent |-> NoField, event |-> v, window |-> w] :
          t \in DeliveredTypes,
          v \in WindowIds \cup {NoField}, w \in WindowIds }

NoEvent == [type |-> 0, parent |-> NoField, event |-> NoField, window |-> NoField]

(***************************************************************************)
(* Python dictionaries as functions with a varying domain.                 *)
(***************************************************************************)
EmptyDict == <<>>
DictPop(d, k) == [x \in (DOMAIN d) \ {k} |-> d[x]]
DictSetDefault(d, k, v) == IF k \in DOMAIN d THEN d ELSE d @@ (k :> v)
DictPut(d, k, v) == [x \in (DOMAIN d) \cup {k} |-> IF x = k THEN v ELSE d[x]]

\* The orders in which iterating a set can yield its elements.
SeqsOf(S) ==
    { s \in [1..Cardinality(S) -> S] : \A x \in S : \E i \in DOMAIN s : s[i] = x }

VARIABLES
    handlers,       \* self.__handlers: {event type: {window id: set(handlers)}}
    thread,         \* the Thread object: "new", "alive" or "dead"
    dpc,            \* position of the dispatch thread in run / __dispatch
    dEvent,         \* __dispatch: event
    dTH,            \* __dispatch: type_handlers, a reference to an inner dict
    dKey,           \* __dispatch: the window id whose handlers are selected
    dList,          \* __dispatch: handlers
    invoked,        \* handle_event calls made for dEvent, in order
    dFailed,        \* a handle_event call raised
    dMissed,        \* addressing fields tested and found absent or unkeyed
    dQuiet,         \* no call changed self.__handlers since dEvent was taken
    cpc,            \* position of the caller thread
    cOp,            \* the call the caller thread is making
    cTodo,          \* event types the call's loop has still to visit
    cResult,        \* outcome of the call that just ended
    registered,      \* (window id, handler) pairs registered by the calls so far
    wm_type,        \* XObject.wm_type: the window manager's Type
    epc,            \* position of a call of Window.extents
    extents,        \* Window.extents: extents
    eWin,           \* Window.extents: win, the window itself or its parent
    eResult,        \* what the call of Window.extents returned or raised
    gpc,            \* position of a call of Window.geometry
    gGeo,           \* Window.geometry: x, y, width, height
    gResult,        \* what the call of Window.geometry returned or raised
    spc,            \* position of a call of Window.set_geometry
    sGeometry,      \* Window.set_geometry: geometry
    sOnResize,      \* Window.set_geometry: on_resize, in halves
    sExtents,       \* Window.set_geometry: extents
    sCurrent,       \* Window.set_geometry: current
    sHints,         \* Window.set_geometry: hints
    sConfigure,      \* the configure request sent, x and y in halves
    npc,            \* position of a call of WindowManager.nearest_screen_geometry
    nGeometry,      \* nearest_screen_geometry: geometry
    nScreens,       \* what screen_geometries() answered
    nScreen,        \* nearest_screen_geometry: screen
    nWorkarea,      \* what workarea_geometry answered
    nResult,         \* what the call of nearest_screen_geometry returned or raised
    mpc,            \* position of a windows(match=...) call
    mMatch,         \* the match it was given
    mWindows,       \* the windows handed to the matcher, as the X server holds them
    mDesktop,       \* the current desktop the matcher read
    mWorkarea,      \* the workarea the matcher read
    mScored,        \* the (window, points) pairs of map(mapper, windows)
    mResult,         \* the windows returned
    tpc,            \* position of a state request or of a read of state or desktop
    tCall,          \* the call: its method, and its mode or the property it read
    tSent,          \* the client messages sent to the root window
    tReads,         \* the properties the call has read
    tResult,         \* what the read returned
    lpc,            \* position of Config.load in its loop over the sections
    lFile,          \* the sections the configuration files held
    lConfig,        \* the sections still in self._config
    lTodo,          \* the sections the loop has still to pass over
    lKeys,          \* the names that have a key in self.keys
    lSections,      \* Config.sections
    lLogged,         \* the sections logged as invalid
    pGeo,           \* a Geometry object
    pLast,           \* the last call made on it: the constructor or set_position
    hpc,            \* position of a Window.extents call that walks the window tree
    hChain,         \* the window and its ancestors below the root
    hResult,         \* the extents it returned
    oCall,          \* a read of desktop_layout: the property and the number of desktops
    oResult,         \* what it returned
    kData,          \* the data of the section being constructed
    kSection        \* the section constructed, or the exception raised

dispVars == <<handlers, thread, dpc, dEvent, dTH, dKey, dList, invoked,
              dFailed, dMissed, dQuiet, cpc, cOp, cTodo, cResult, registered>>

extVars == <<epc, extents, eWin, eResult>>
geoVars == <<gpc, gGeo, gResult>>
setVars == <<spc, sGeometry, sOnResize, sExtents, sCurrent, sHints, sConfigure>>
scrVars == <<npc, nGeometry, nScreens, nScreen, nWorkarea, nResult>>
matchVars == <<mpc, mMatch, mWindows, mDesktop, mWorkarea, mScored, mResult>>
stVars == <<tpc, tCall, tSent, tReads, tResult>>
cfgVars == <<lpc, lFile, lConfig, lTodo, lKeys, lSections, lLogged>>
posVars == <<pGeo, pLast>>
chainVars == <<hpc, hChain, hResult>>
layoutVars == <<oCall, oResult>>
sectVars == <<kData, kSection>>
winVars == <<wm_type, extVars, geoVars, setVars, scrVars, matchVars, stVars, cfgVars, posVars, chainVars, layoutVars, sectVars>>

\* what the steps of one part of the Window model leave alone, besides the
\* dispatcher and the variables they name
notExtVars == <<geoVars, setVars, scrVars, matchVars, stVars, cfgVars, posVars, chainVars, layoutVars, sectVars>>
notGeoVars == <<setVars, scrVars, matchVars, stVars, cfgVars, posVars, chainVars, layoutVars, sectVars>>
notSetVars == <<extVars, geoVars, scrVars, matchVars, stVars, cfgVars, posVars, chainVars, layoutVars, sectVars>>
notScrVars == <<extVars, geoVars, setVars, matchVars, stVars, cfgVars, posVars, chainVars, layoutVars, sectVars>>
notMatchVars == <<extVars, geoVars, setVars, scrVars, stVars, cfgVars, posVars, chainVars, layoutVars, sectVars>>
notStVars == <<extVars, geoVars, setVars, scrVars, matchVars, cfgVars, posVars, chainVars, layoutVars, sectVars>>
notCfgVars == <<extVars, geoVars, setVars, scrVars, matchVars, stVars, posVars, chainVars, layoutVars, sectVars>>
notPosVars == <<extVars, geoVars, setVars, scrVars, matchVars, stVars, cfgVars, chainVars, layoutVars, sectVars>>
notChainVars == <<extVars, geoVars, setVars, scrVars, matchVars, stVars, cfgVars, posVars, layoutVars, sectVars>>
notLayoutVars == <<extVars, geoVars, setVars, scrVars, matchVars, stVars, cfgVars, posVars, chainVars, sectVars>>
notSectVars == <<extVars, geoVars, setVars, scrVars, matchVars, stVars, cfgVars, posVars, chainVars, layoutVars>>

vars == <<dispVars, winVars>>

dLocals == <<dEvent, dTH, dKey, dList, invoked, dFailed, dMissed>>
cLocals == <<cpc, cOp, cTodo, cResult, registered>>

\* __get_masks reading the handlers of one event type only
GetMasksOneType(hs, window_id) ==
    UNION { HandlerMasks(h) :
              h \in UNION { IF window_id \in DOMAIN hs[t] THEN hs[t][window_id]
                            ELSE {} :
                            t \in { x \in DOMAIN hs : \A y \in DOMAIN hs : x <= y } } }

(***************************************************************************)
(* EventDispatcher.__get_masks                                             *)
(***************************************************************************)
GetMasks(hs, window_id) ==
    UNION { HandlerMasks(h) :
              h \in UNION { IF window_id \in DOMAIN hs[t] THEN hs[t][window_id]
                            ELSE {} : t \in DOMAIN hs } }

NoResult == [kind |-> "none", masks |-> {}]
NoCall == [op |-> "none", window |-> NoField, handler |-> 0]
NoRef == [live |-> FALSE, snap |-> EmptyDict]

\* The dispatch thread is inside __dispatch, or has just left it.
InDispatch == dpc \in {"d128", "d131", "d133", "d135", "d137", "dext", "d139",
                       "d140", "d141", "dret", "raised"}

\* dQuiet after a step of a call that changes self.__handlers
Disturbed == IF InDispatch THEN FALSE ELSE dQuiet

\* The dispatch thread holds a reference to the inner dict of its event type.
HoldsRef == dpc \in {"d133", "d135", "d137", "dext", "d139", "d140"}

\* The inner dict the dispatch thread's type_handlers refers to.
TypeHandlers == IF dTH.live THEN handlers[dEvent.type] ELSE dTH.snap

\* The caller removed the inner dict of event type t from self.__handlers when
\* its content was th: a reference the dispatch thread holds to it goes stale.
Detached(t, th) ==
    IF HoldsRef /\ dTH.live /\ dEvent.type = t
    THEN [live |-> FALSE, snap |-> th]
    ELSE dTH

\* EventDispatcher.__init__
DispatchInit ==
    /\ handlers = EmptyDict
    /\ thread = "new"
    /\ dpc = "none"
    /\ dEvent = NoEvent
    /\ dTH = NoRef
    /\ dKey = NoField
    /\ dList = <<>>
    /\ invoked = <<>>
    /\ dFailed = FALSE
    /\ dMissed = {}
    /\ dQuiet = TRUE
    /\ cpc = "idle"
    /\ cOp = NoCall
    /\ cTodo = {}
    /\ cResult = NoResult
    /\ registered = {}

(***************************************************************************)
(* EventDispatcher.register                                                *)
(***************************************************************************)
\* lines 69-71 for one event type
AddHandler(hs, t, w, h) ==
    LET type_handlers == DictSetDefault(hs, t, EmptyDict)[t]
        win_handlers == DictSetDefault(type_handlers, w, {})[w]
    IN  DictPut(hs, t, DictPut(type_handlers, w, win_handlers \cup {h}))

\* one turn of the loop of line 68
RegisterStep(w, h, todo) ==
    \E t \in todo :
        /\ handlers' = AddHandler(handlers, t, w, h)
        /\ cTodo' = todo \ {t}
        /\ cpc' = IF cTodo' = {} THEN "reg_start" ELSE "reg_loop"

\* the call register(window, handler), up to the first turn of its loop
Register(w, h) ==
    /\ cpc = "idle"
    /\ cOp' = [op |-> "register", window |-> w, handler |-> h]
    /\ registered' = registered \cup {<<w, h>>}
    /\ RegisterStep(w, h, HandlerTypes(h))
    /\ dQuiet' = Disturbed
    /\ UNCHANGED <<thread, dpc, dLocals, cResult>>
    /\ UNCHANGED winVars

RegisterIter ==
    /\ cpc = "reg_loop"
    /\ RegisterStep(cOp.window, cOp.handler, cTodo)
    /\ dQuiet' = Disturbed
    /\ UNCHANGED <<thread, dpc, dLocals, cOp, cResult, registered>>
    /\ UNCHANGED winVars

\* lines 72-74: Thread.start raises RuntimeError on a thread started before
RegisterStart ==
    /\ cpc = "reg_start"
    /\ cpc' = "returned"
    /\ \/ /\ thread = "alive"
          /\ cResult' = [kind |-> "set", masks |-> GetMasks(handlers, cOp.window)]
          /\ UNCHANGED <<thread, dpc>>
       \/ /\ thread = "new"
          /\ thread' = "alive"
          /\ dpc' = "test"
          /\ cResult' = [kind |-> "set", masks |-> GetMasks(handlers, cOp.window)]
       \/ /\ thread = "dead"
          /\ cResult' = [kind |-> "RuntimeError", masks |-> {}]
          /\ UNCHANGED <<thread, dpc>>
    /\ UNCHANGED <<handlers, dLocals, dQuiet, cOp, cTodo, registered>>
    /\ UNCHANGED winVars

(***************************************************************************)
(* EventDispatcher.unregister                                              *)
(***************************************************************************)
\* lines 83-86: unregister(), and unregister(None, handler) alike
UnregisterAll ==
    /\ cpc = "idle"
    /\ cOp' = [op |-> "unregister", window |-> NoField, handler |-> 0]
    /\ handlers' = EmptyDict
    /\ dTH' = IF HoldsRef /\ dTH.live
              THEN [live |-> FALSE, snap |-> handlers[dEvent.type]]
              ELSE dTH
    /\ cResult' = [kind |-> "list", masks |-> {}]
    /\ cpc' = "returned"
    /\ registered' = {}
    /\ dQuiet' = Disturbed
    /\ UNCHANGED <<thread, dpc, dEvent, dKey, dList, invoked, dFailed,
                   dMissed, cTodo>>
    /\ UNCHANGED winVars

\* unregister(window) leaving the window's entry in place
RemoveFromHandlerOnly(type_handlers, w, h) ==
    IF w \notin DOMAIN type_handlers THEN type_handlers
    ELSE IF h # 0 THEN [type_handlers EXCEPT ![w] = @ \ {h}]
    ELSE type_handlers

\* lines 92-97 on one inner dict; h = 0 is handler=None
RemoveFrom(type_handlers, w, h) ==
    IF w \notin DOMAIN type_handlers THEN type_handlers
    ELSE IF h # 0 THEN [type_handlers EXCEPT ![w] = @ \ {h}]
    ELSE DictPop(type_handlers, w)

\* one turn of the loop of line 91, and line 100 after the last turn
UnregisterStep(w, h, todo) ==
    \E t \in todo :
        LET type_handlers == RemoveFrom(handlers[t], w, h)
            popped == w \in DOMAIN handlers[t] /\ DOMAIN type_handlers = {}
            hs == IF popped THEN DictPop(handlers, t)
                  ELSE DictPut(handlers, t, type_handlers)
        IN  /\ handlers' = hs
            /\ dTH' = IF popped THEN Detached(t, type_handlers) ELSE dTH
            /\ cTodo' = todo \ {t}
            /\ IF cTodo' = {}
               THEN /\ cpc' = "returned"
                    /\ cResult' = [kind |-> "set", masks |-> GetMasks(hs, w)]
               ELSE /\ cpc' = "unreg_loop"
                    /\ UNCHANGED cResult

\* the calls unregister(window), with h = 0, and unregister(window, handler),
\* up to the first turn of the loop over the entries items() lists
Unregister(w, h) ==
    /\ cpc = "idle"
    /\ cOp' = [op |-> "unregister", window |-> w, handler |-> h]
    /\ registered' = IF h = 0 THEN { p \in registered : p[1] # w }
                     ELSE registered \ {<<w, h>>}
    /\ IF DOMAIN handlers = {}
       THEN /\ cpc' = "returned"
            /\ cResult' = [kind |-> "set", masks |-> GetMasks(handlers, w)]
            /\ UNCHANGED <<handlers, dTH, cTodo>>
       ELSE UnregisterStep(w, h, DOMAIN handlers)
    /\ dQuiet' = Disturbed
    /\ UNCHANGED <<thread, dpc, dEvent, dKey, dList, invoked, dFailed, dMissed>>
    /\ UNCHANGED winVars

UnregisterIter ==
    /\ cpc = "unreg_loop"
    /\ UnregisterStep(cOp.window, cOp.handler, cTodo)
    /\ dQuiet' = Disturbed
    /\ UNCHANGED <<thread, dpc, dEvent, dKey, dList, invoked, dFailed, dMissed,
                   cOp, registered>>
    /\ UNCHANGED winVars

\* the call is over: its result goes to the caller and is kept no longer
CallerDone ==
    /\ cpc = "returned"
    /\ cpc' = "idle"
    /\ cOp' = NoCall
    /\ cResult' = NoResult
    /\ UNCHANGED <<handlers, thread, dpc, dLocals, dQuiet, cTodo, registered>>
    /\ UNCHANGED winVars

(***************************************************************************)
(* EventDispatcher.run                                                     *)
(***************************************************************************)
\* line 59: while self.__handlers
LoopTest ==
    /\ thread = "alive"
    /\ dpc = "test"
    /\ dpc' = IF DOMAIN handlers # {} THEN "poll" ELSE "stopped"
    /\ UNCHANGED <<handlers, thread, dLocals, cLocals, dQuiet>>
    /\ UNCHANGED winVars

\* the locals of the __dispatch call before are gone
DropLocals ==
    /\ dTH' = NoRef
    /\ dKey' = NoField
    /\ dList' = <<>>
    /\ invoked' = <<>>
    /\ dMissed' = {}
    /\ dQuiet' = TRUE

\* lines 60-62: no event is pending; sleep and test again
PollIdle ==
    /\ thread = "alive"
    /\ dpc \in {"poll", "dret"}
    /\ dpc' = "test"
    /\ dEvent' = NoEvent
    /\ DropLocals
    /\ UNCHANGED <<handlers, thread, dFailed, cLocals>>
    /\ UNCHANGED winVars

\* lines 60-61: take the next pending event, whichever the display holds
PollEvent ==
    /\ thread = "alive"
    /\ dpc \in {"poll", "dret"}
    /\ \E e \in Events : dEvent' = e
    /\ dpc' = "d128"
    /\ DropLocals
    /\ UNCHANGED <<handlers, thread, dFailed, cLocals>>
    /\ UNCHANGED winVars

\* line 63 and the thread's teardown, or an exception leaving run
ThreadExit ==
    /\ thread = "alive"
    /\ dpc \in {"stopped", "raised"}
    /\ thread' = "dead"
    /\ dEvent' = NoEvent
    /\ DropLocals
    /\ UNCHANGED <<handlers, dpc, dFailed, cLocals>>
    /\ UNCHANGED winVars

(***************************************************************************)
(* EventDispatcher.__dispatch                                              *)
(***************************************************************************)
\* lines 128-130
D128 ==
    /\ thread = "alive"
    /\ dpc = "d128"
    /\ dpc' = IF dEvent.type \in DOMAIN handlers THEN "d131" ELSE "dret"
    /\ UNCHANGED <<handlers, thread, dLocals, cLocals, dQuiet>>
    /\ UNCHANGED winVars

\* lines 131-132; KeyError when the type is no longer a key
D131 ==
    /\ thread = "alive"
    /\ dpc = "d131"
    /\ IF dEvent.type \in DOMAIN handlers
       THEN /\ dTH' = [live |-> TRUE, snap |-> EmptyDict]
            /\ dpc' = "d133"
       ELSE /\ dpc' = "raised"
            /\ UNCHANGED dTH
    /\ UNCHANGED <<handlers, thread, dEvent, dKey, dList, invoked, dFailed,
                   dMissed, cLocals, dQuiet>>
    /\ UNCHANGED winVars

\* the addressing fields read in the opposite order
FieldOfWindowFirst(e, f) == IF f = "parent" THEN e.window
                            ELSE IF f = "event" THEN e.event ELSE e.parent

\* hasattr(event, f) and the field's window id
FieldOf(e, f) == IF f = "parent" THEN e.parent
                 ELSE IF f = "event" THEN e.event ELSE e.window

\* the conditions of lines 133, 135 and 137, one addressing field each
TestField(f, pc, next) ==
    /\ thread = "alive"
    /\ dpc = pc
    /\ IF FieldOf(dEvent, f) # NoField /\ FieldOf(dEvent, f) \in DOMAIN TypeHandlers
       THEN /\ dKey' = FieldOf(dEvent, f)
            /\ dpc' = "dext"
            /\ UNCHANGED dMissed
       ELSE /\ dMissed' = dMissed \cup {f}
            /\ dpc' = next
            /\ UNCHANGED dKey
    /\ UNCHANGED <<handlers, thread, dEvent, dTH, dList, invoked, dFailed,
                   cLocals, dQuiet>>
    /\ UNCHANGED winVars

D133 == TestField("parent", "d133", "d135")
D135 == TestField("event", "d135", "d137")
D137 == TestField("window", "d137", "d139")

\* handlers.extend(type_handlers[k]); KeyError when k is no longer a key.
\* type_handlers is read no more once the exception leaves __dispatch, or
\* after line 140.
Extend(k, next) ==
    IF k \in DOMAIN TypeHandlers
    THEN /\ \E s \in SeqsOf(TypeHandlers[k]) : dList' = dList \o s
         /\ dpc' = next
         /\ dTH' = IF next = "d141" THEN NoRef ELSE dTH
    ELSE /\ dpc' = "raised"
         /\ dTH' = NoRef
         /\ UNCHANGED dList

\* lines 134, 136 and 138
DExt ==
    /\ thread = "alive"
    /\ dpc = "dext"
    /\ Extend(dKey, "d139")
    /\ UNCHANGED <<handlers, thread, dEvent, dKey, invoked, dFailed, dMissed,
                   cLocals, dQuiet>>
    /\ UNCHANGED winVars

\* line 139: self.__root, taken to hash and compare as the root window's id
RootInTypeHandlers == RootId \in DOMAIN TypeHandlers

D139 ==
    /\ thread = "alive"
    /\ dpc = "d139"
    /\ IF RootInTypeHandlers
       THEN /\ dpc' = "d140"
            /\ UNCHANGED dTH
       ELSE /\ dpc' = "d141"
            /\ dTH' = NoRef
    /\ UNCHANGED <<handlers, thread, dEvent, dKey, dList, invoked, dFailed,
                   dMissed, cLocals, dQuiet>>
    /\ UNCHANGED winVars

\* line 140
D140 ==
    /\ thread = "alive"
    /\ dpc = "d140"
    /\ Extend(RootId, "d141")
    /\ UNCHANGED <<handlers, thread, dEvent, dKey, invoked, dFailed, dMissed,
                   cLocals, dQuiet>>
    /\ UNCHANGED winVars

\* lines 141-142, the whole loop (it reads nothing shared): either every
\* handle_event call returns, or the n-th raises and the exception leaves
\* __dispatch and run; dList keeps the handlers not called
D141 ==
    /\ thread = "alive"
    /\ dpc = "d141"
    /\ \/ /\ invoked' = dList
          /\ dList' = <<>>
          /\ dpc' = "dret"
          /\ UNCHANGED dFailed
       \/ \E n \in 1..Len(dList) :
            /\ invoked' = SubSeq(dList, 1, n)
            /\ dList' = SubSeq(dList, n + 1, Len(dList))
            /\ dpc' = "raised"
            /\ dFailed' = TRUE
    /\ UNCHANGED <<handlers, thread, dEvent, dTH, dKey, dMissed, cLocals, dQuiet>>
    /\ UNCHANGED winVars

(***************************************************************************)
(* Type, Hacks and Window.extents                                          *)
(***************************************************************************)
COMPIZ == 1
METACITY == 2
KWIN == 3
OPENBOX == 5
FLUXBOX == 6
BLACKBOX == 7
ICEWM == 8
ENLIGHTMENT == 9
WINDOW_MAKER == 10
SAWFISH == 11
PEKWM == 12
UNKNOWN == -1

\* the window manager Types
WindowManagerTypes == (COMPIZ..PEKWM) \cup {UNKNOWN}

DONT_TRANSLATE_COORDS == {COMPIZ, FLUXBOX, WINDOW_MAKER}
ADJUST_GEOMETRY == {COMPIZ, KWIN, ENLIGHTMENT, ICEWM, BLACKBOX}
PARENT_XY == {FLUXBOX, WINDOW_MAKER}
CALCULATE_EXTENTS == {BLACKBOX, ICEWM, SAWFISH, WINDOW_MAKER, UNKNOWN}

\* a field of a tuple of extents: None, or an integer
None == <<>>
Concrete(n) == <<n>>

\* what get_property('_NET_FRAME_EXTENTS') answers: nothing, or a property
\* whose value is a list of CARDINALs
NoProperty == [present |-> FALSE, value |-> <<>>]
FrameExtentsProperties ==
    {NoProperty} \cup
    { [present |-> TRUE, value |-> v] :
        v \in UNION { [1..n -> { Concrete(c) : c \in 0..MaxCard }] : n \in 0..MaxPropLen } }

\* what get_geometry() answers
Geometries ==
    [x : -MaxCoord..MaxCoord, y : -MaxCoord..MaxCoord,
     width : 1..MaxSize, height : 1..MaxSize, border_width : 0..MaxBorder]

NoExtentsResult == [kind |-> "none", fields |-> <<>>]

\* the constructor Extents(left, right, top, bottom)
Extents(args) ==
    IF Len(args) = 4 THEN [kind |-> "Extents", fields |-> args]
    ELSE [kind |-> "TypeError", fields |-> <<>>]

\* no call of Window.extents is under way
ExtentsIdle ==
    /\ epc = "idle"
    /\ extents = <<>>
    /\ eWin = "win"
    /\ eResult = NoExtentsResult

\* Window.__extents
RawExtents(property) == IF property.present THEN property.value ELSE <<>>

\* line 313: extents = self.__extents()
E313 ==
    /\ epc = "idle"
    /\ \E property \in FrameExtentsProperties : extents' = RawExtents(property)
    /\ epc' = "e315"
    /\ eWin' = "win"
    /\ eResult' = NoExtentsResult
    /\ UNCHANGED <<wm_type, dispVars, notExtVars>>

\* lines 315, 335-340: the branches of the if; ob_undecorated is
\* State.OB_UNDECORATED in self.state
E315 ==
    /\ epc = "e315"
    /\ IF extents = <<>> /\ wm_type \in CALCULATE_EXTENTS
       THEN /\ epc' = "e318"
            /\ UNCHANGED extents
       ELSE /\ epc' = "e341"
            /\ IF extents = <<>>
               THEN extents' = <<None, None, None, None>>
               ELSE \E ob_undecorated \in BOOLEAN :
                        extents' = IF wm_type = OPENBOX /\ ob_undecorated
                                   THEN <<Concrete(1), Concrete(1), Concrete(1), Concrete(1)>>
                                   ELSE extents
    /\ UNCHANGED <<wm_type, eWin, eResult, dispVars, notExtVars>>

\* lines 317-320: parent_is_root is parent.id == self._root_id
E318 ==
    /\ epc = "e318"
    /\ \E parent_is_root \in BOOLEAN :
         IF parent_is_root
         THEN /\ eResult' = Extents(<<None, None, None, None>>)
              /\ epc' = "done"
         ELSE /\ epc' = "e321"
              /\ UNCHANGED eResult
    /\ UNCHANGED <<wm_type, extents, eWin, dispVars, notExtVars>>

\* lines 321-325: a window as large as its parent gives way to the parent
E321 ==
    /\ epc = "e321"
    /\ \E win_geo \in Geometries, parent_geo \in Geometries,
          parent_is_root \in BOOLEAN :
         LET up == win_geo.width = parent_geo.width
                   /\ win_geo.height = parent_geo.height
         IN  /\ eWin' = IF up THEN "parent" ELSE eWin
             /\ IF up /\ parent_is_root
                THEN /\ eResult' = Extents(<<None, None, None, None>>)
                     /\ epc' = "done"
                ELSE /\ epc' = "e326"
                     /\ UNCHANGED eResult
    /\ UNCHANGED <<wm_type, extents, dispVars, notExtVars>>

\* the extents with a part left out
CalculatedWidthOnly(win_geo, parent_geo) ==
    LET border_widths == win_geo.border_width + parent_geo.border_width
        parent_border == parent_geo.border_width * 2
        left == win_geo.x + border_widths
        right == parent_geo.width - win_geo.width - left + parent_border
    IN  <<Concrete(left), Concrete(right), None, None>>

\* lines 328-334
Calculated(win_geo, parent_geo) ==
    LET border_widths == win_geo.border_width + parent_geo.border_width
        parent_border == parent_geo.border_width * 2
        left == win_geo.x + border_widths
        top == win_geo.y + border_widths
        right == parent_geo.width - win_geo.width - left + parent_border
        bottom == parent_geo.height - win_geo.height - top + parent_border
    IN  <<Concrete(left), Concrete(right), Concrete(top), Concrete(bottom)>>

\* lines 326-334
E326 ==
    /\ epc = "e326"
    /\ \E win_geo \in Geometries, parent_geo \in Geometries :
         extents' = Calculated(win_geo, parent_geo)
    /\ epc' = "e341"
    /\ UNCHANGED <<wm_type, eWin, eResult, dispVars, notExtVars>>

\* line 341: return Extents(*extents)
E341 ==
    /\ epc = "e341"
    /\ eResult' = Extents(extents)
    /\ epc' = "done"
    /\ UNCHANGED <<wm_type, extents, eWin, dispVars, notExtVars>>

\* the call is over
ExtentsDone ==
    /\ epc = "done"
    /\ epc' = "idle"
    /\ extents' = <<>>
    /\ UNCHANGED <<wm_type, eWin, eResult, dispVars, notExtVars>>

(***************************************************************************)
(* Window.geometry                                                         *)
(***************************************************************************)
NoGeometryResult == [kind |-> "none"]

\* no call of Window.geometry is under way
GeometryIdle ==
    /\ gpc = "idle"
    /\ gGeo = <<>>
    /\ gResult = NoGeometryResult

\* the Extents e hold integers: left, right, top, bottom
Known(e) == \A i \in 1..4 : e.fields[i] # None
Left(e) == e.fields[1][1]
Right(e) == e.fields[2][1]
Top(e) == e.fields[3][1]
Bottom(e) == e.fields[4][1]

\* Extents.horizontal and Extents.vertical
Horizontal(e) == Left(e) + Right(e)
Vertical(e) == Top(e) + Bottom(e)

\* Window.__geometry, lines 345-352: parent_geo is read under PARENT_XY only
RawGeometry(geometry, parent_geo) ==
    IF wm_type \in PARENT_XY
    THEN [x |-> parent_geo.x, y |-> parent_geo.y,
          width |-> geometry.width, height |-> geometry.height]
    ELSE [x |-> geometry.x, y |-> geometry.y,
          width |-> geometry.width, height |-> geometry.height]

\* the x and y get_geometry() answers
Positions == [x : -MaxCoord..MaxCoord, y : -MaxCoord..MaxCoord]

\* line 356: x, y, width, height = self.__geometry()
G356 ==
    /\ gpc = "idle"
    /\ \E geometry \in Geometries, parent_geo \in Positions :
         gGeo' = RawGeometry(geometry, parent_geo)
    /\ gpc' = "g358"
    /\ gResult' = NoGeometryResult
    /\ UNCHANGED <<wm_type, extVars, dispVars, notGeoVars>>

\* lines 359-365: whether the coordinates are translated
Translates(e) ==
    /\ wm_type \notin DONT_TRANSLATE_COORDS
    /\ ~(wm_type = METACITY /\ ~Known(e))

\* the client's size without the decorations
RawSize(x, y, width, height, e) ==
    [kind |-> "Geometry", x |-> x, y |-> y, width |-> width, height |-> height]

\* lines 381-384: Geometry(x, y, width + extents.horizontal,
\* height + extents.vertical)
Decorated(x, y, width, height, e) ==
    [kind |-> "Geometry", x |-> x, y |-> y,
     width |-> width + Horizontal(e), height |-> height + Vertical(e)]

\* lines 359-384 with the Extents e of line 358, translated being what
\* _translate_coords answers
Normalized(g, e, translated) ==
    LET x1 == IF Translates(e) THEN -translated.x ELSE g.x
        y1 == IF Translates(e) THEN -translated.y ELSE g.y
        x2 == IF wm_type \in ADJUST_GEOMETRY THEN x1 - Left(e) ELSE x1
        y2 == IF wm_type \in ADJUST_GEOMETRY THEN y1 - Top(e) ELSE y1
    IN  Decorated(x2, y2, g.width, g.height, e)

\* lines 359-384, once self.extents of line 358 is over: the exception of
\* extents is the call's; arithmetic on extents that are None raises
G359 ==
    /\ gpc = "g358"
    /\ epc = "done"
    /\ IF eResult.kind = "Extents" /\ Known(eResult)
       THEN \E translated \in Positions :
                gResult' = Normalized(gGeo, eResult, translated)
       ELSE gResult' = [kind |-> "TypeError"]
    /\ gpc' = "done"
    /\ epc' = "idle"
    /\ extents' = <<>>
    /\ UNCHANGED <<wm_type, gGeo, eWin, eResult, dispVars, notGeoVars>>

\* the call is over; its locals and its result are kept no longer
GeometryDone ==
    /\ gpc = "done"
    /\ gpc' = "idle"
    /\ gGeo' = <<>>
    /\ gResult' = NoGeometryResult
    /\ eWin' = "win"
    /\ eResult' = NoExtentsResult
    /\ UNCHANGED <<wm_type, epc, extents, dispVars, notGeoVars>>

(***************************************************************************)
(* Window.set_geometry                                                     *)
(***************************************************************************)
StaticGravity == 10     \* X.StaticGravity
NorthWestGravity == 1   \* X.NorthWestGravity

\* a Gravity's x and y, in halves: 0, 0.5 and 1
Gravities == [x : {0, 1, 2}, y : {0, 2}]

\* the geometry callers ask for, decorations included
RequestedGeometries ==
    [x : 0..MaxCoord, y : 0..MaxCoord, width : {17, 33, 35}, height : {3, 35}]

\* what self.extents answers
ExtentsResults ==
    { Extents(<<None, None, None, None>>) } \cup
    { Extents(<<Concrete(l), Concrete(r), Concrete(t), Concrete(b)>>) :
        l \in 0..MaxCard, r \in 0..MaxCard, t \in 0..MaxCard, b \in 0..MaxCard }

\* the width and height self.__geometry() answers
CurrentSizes == [width : {25, 30}, height : {25, 30}]

\* what get_wm_normal_hints() answers: None, or the WM_NORMAL_HINTS of the
\* window, a field the window does not set being 0
NoHints == [present |-> FALSE]
NormalHints ==
    {NoHints} \cup
    [present : {TRUE}, win_gravity : {NorthWestGravity, StaticGravity},
     max_width : {0, 22}, min_width : {0, 20},
     width_inc : {0, 10}, base_width : {0, 5},
     max_height : {0, 30}, min_height : {0, 20},
     height_inc : {0, 10}, base_height : {0}]

NoConfigure == [kind |-> "none"]

\* no call of Window.set_geometry is under way
SetGeometryIdle ==
    /\ spc = "idle"
    /\ sGeometry = <<>>
    /\ sOnResize = <<>>
    /\ sExtents = NoExtentsResult
    /\ sCurrent = <<>>
    /\ sHints = NoHints
    /\ sConfigure = NoConfigure

Min2(a, b) == IF a < b THEN a ELSE b
Max2(a, b) == IF a > b THEN a ELSE b

\* lines 409-412, one axis
ClampMax(size, max) == IF max # 0 THEN Min2(size, max) ELSE size

\* lines 414-417, one axis
ClampMin(size, min) == IF min # 0 THEN Max2(size, min) ELSE size

\* lines 419-423 and 428-432: the base of the increments
Base(declared, current, inc) == IF declared # 0 THEN declared ELSE current % inc

\* lines 424-425 and 433-434
Quantized(size, base, inc) == ((size - base) \div inc) * inc + base

\* lines 419-427
QuantizeWidth(width, current, hints) ==
    IF hints.width_inc # 0
    THEN LET base == Base(hints.base_width, current.width, hints.width_inc)
             q == Quantized(width, base, hints.width_inc)
         IN  IF hints.min_width # 0 /\ q < hints.min_width
             THEN q + hints.width_inc ELSE q
    ELSE width

\* lines 428-436
QuantizeHeight(height, current, hints) ==
    IF hints.height_inc # 0
    THEN LET base == Base(hints.base_height, current.height, hints.height_inc)
             q == Quantized(height, base, hints.height_inc)
         IN  IF hints.height_inc # 0 /\ q < hints.min_height
             THEN q + hints.height_inc ELSE q
    ELSE height

\* lines 405-407: the position under StaticGravity
StaticX(x, e, hints) ==
    IF hints.present /\ hints.win_gravity = StaticGravity THEN x + Left(e) ELSE x
StaticY(y, e, hints) ==
    IF hints.present /\ hints.win_gravity = StaticGravity THEN y + Top(e) ELSE y

\* the position left where it was asked for
NotAdjusted(x, size, hinted, gravity) == 2 * x

\* lines 438-440 on one axis, in halves; size is geometry_size's
Adjusted(x, size, hinted, gravity) == 2 * x + (size - hinted) * gravity

\* lines 399-441: the configure request
ConfigureRequest(geometry, on_resize, e, current, hints) ==
    LET width == geometry.width - Horizontal(e)
        height == geometry.height - Vertical(e)
        x == StaticX(geometry.x, e, hints)
        y == StaticY(geometry.y, e, hints)
        w == IF hints.present
             THEN QuantizeWidth(ClampMin(ClampMax(width, hints.max_width),
                                         hints.min_width), current, hints)
             ELSE width
        h == IF hints.present
             THEN QuantizeHeight(ClampMin(ClampMax(height, hints.max_height),
                                          hints.min_height), current, hints)
             ELSE height
        changed == <<w, h>> # <<width, height>>
    IN  [kind |-> "configure",
         x |-> IF changed THEN Adjusted(x, width, w, on_resize.x) ELSE 2 * x,
         y |-> IF changed THEN Adjusted(y, height, h, on_resize.y) ELSE 2 * y,
         width |-> w, height |-> h]

\* the call set_geometry(geometry, on_resize)
S386 ==
    /\ spc = "idle"
    /\ \E geometry \in RequestedGeometries : sGeometry' = geometry
    /\ \E on_resize \in Gravities : sOnResize' = on_resize
    /\ spc' = "s398"
    /\ UNCHANGED <<wm_type, sExtents, sCurrent, sHints, sConfigure,
                   dispVars, notSetVars>>

\* lines 398-402: arithmetic on extents that are None raises
S398 ==
    /\ spc = "s398"
    /\ \E e \in ExtentsResults :
         /\ sExtents' = e
         /\ IF Known(e)
            THEN /\ spc' = "s403"
                 /\ UNCHANGED sConfigure
            ELSE /\ spc' = "done"
                 /\ sConfigure' = [kind |-> "TypeError"]
    /\ UNCHANGED <<wm_type, sGeometry, sOnResize, sCurrent, sHints,
                   dispVars, notSetVars>>

\* lines 403-441
S403 ==
    /\ spc = "s403"
    /\ \E current \in CurrentSizes, hints \in NormalHints :
         /\ sCurrent' = current
         /\ sHints' = hints
         /\ sConfigure' = ConfigureRequest(sGeometry, sOnResize, sExtents,
                                           current, hints)
    /\ spc' = "done"
    /\ UNCHANGED <<wm_type, sGeometry, sOnResize, sExtents,
                   dispVars, notSetVars>>

\* the call is over; its locals are kept no longer
SetGeometryDone ==
    /\ spc = "done"
    /\ spc' = "idle"
    /\ sGeometry' = <<>>
    /\ sOnResize' = <<>>
    /\ sExtents' = NoExtentsResult
    /\ sCurrent' = <<>>
    /\ sHints' = NoHints
    /\ sConfigure' = NoConfigure
    /\ UNCHANGED <<wm_type, dispVars, notSetVars>>

(***************************************************************************)
(* WindowManager.nearest_screen_geometry                                   *)
(***************************************************************************)
\* the rectangles of screens, of the workarea and of callers
Rectangles ==
    [x : 0..MaxEdge, y : {0}, width : 1..MaxEdge, height : 1..MaxEdge]

\* the lists screen_geometries() answers
ScreenLists == UNION { [1..n -> Rectangles] : n \in 1..MaxScreens }

\* the empty result of Geometry.__and__
NullGeometry == [x |-> 0, y |-> 0, width |-> 0, height |-> 0]

\* Geometry.__and__: the overlap of two rectangles, or the empty result
Intersect(a, b) ==
    LET x == Max2(a.x, b.x)
        y == Max2(a.y, b.y)
        x2 == Min2(a.x + a.width, b.x + b.width)
        y2 == Min2(a.y + a.height, b.y + b.height)
    IN  IF x2 > x /\ y2 > y
        THEN [x |-> x, y |-> y, width |-> x2 - x, height |-> y2 - y]
        ELSE NullGeometry

\* Geometry.area
Area(g) == g.width * g.height

NoNearestResult == [kind |-> "none"]

\* no call of nearest_screen_geometry is under way
NearestIdle ==
    /\ npc = "idle"
    /\ nGeometry = NullGeometry
    /\ nScreens = <<>>
    /\ nScreen = NullGeometry
    /\ nWorkarea = NullGeometry
    /\ nResult = NoNearestResult

\* lines 839-843: the screens whose intersection with geometry is kept
Candidates(screens, geometry) ==
    { i \in DOMAIN screens : Intersect(screens[i], geometry) # NullGeometry }

\* the first of the sorted (area, screen) pairs
SortedFirst(screens, geometry) ==
    { i \in Candidates(screens, geometry) :
        \A j \in Candidates(screens, geometry) :
            Area(Intersect(screens[i], geometry))
                <= Area(Intersect(screens[j], geometry)) }

\* line 844: sorted(screens_by_area)[-1], the last of the (area, screen)
\* pairs in ascending order; pairs of equal area come in the order of the
\* screens' comparison, whichever that is
SortedLast(screens, geometry) ==
    { i \in Candidates(screens, geometry) :
        \A j \in Candidates(screens, geometry) :
            Area(Intersect(screens[j], geometry))
                <= Area(Intersect(screens[i], geometry)) }

\* lines 839-844: [-1] of an empty list raises IndexError
N839 ==
    /\ npc = "idle"
    /\ \E geometry \in Rectangles, screens \in ScreenLists :
         /\ nGeometry' = geometry
         /\ nScreens' = screens
         /\ IF Candidates(screens, geometry) = {}
            THEN /\ nResult' = [kind |-> "IndexError"]
                 /\ npc' = "done"
                 /\ UNCHANGED nScreen
            ELSE /\ \E i \in SortedLast(screens, geometry) :
                        nScreen' = screens[i]
                 /\ npc' = "n845"
                 /\ UNCHANGED nResult
    /\ UNCHANGED <<wm_type, nWorkarea, dispVars, notScrVars>>

\* line 845: return screen & self.workarea_geometry
N845 ==
    /\ npc = "n845"
    /\ \E workarea \in Rectangles :
         /\ nWorkarea' = workarea
         /\ nResult' = [kind |-> "Geometry", g |-> Intersect(nScreen, workarea)]
    /\ npc' = "done"
    /\ UNCHANGED <<wm_type, nGeometry, nScreens, nScreen, dispVars, notScrVars>>

\* the call is over; its locals are kept no longer
NearestDone ==
    /\ npc = "done"
    /\ npc' = "idle"
    /\ nGeometry' = NullGeometry
    /\ nScreens' = <<>>
    /\ nScreen' = NullGeometry
    /\ nWorkarea' = NullGeometry
    /\ nResult' = NoNearestResult
    /\ UNCHANGED <<wm_type, dispVars, notScrVars>>


(***************************************************************************)
(* WindowManager.windows(match=...) and WindowManager.__name_matcher.      *)
(* A text is a sequence of tokens: the query's letters in lower or in      *)
(* upper case, a space, or a run of n characters that are no part of the   *)
(* query.                                                                  *)
(***************************************************************************)
ALL_DESKTOPS == -1        \* 0xFFFFFFFF, read as a signed 32-bit cardinal

LowerQuery == [kind |-> "query", n |-> 0]
UpperQuery == [kind |-> "QUERY", n |-> 0]
Space      == [kind |-> "space", n |-> 1]
Pad(n)     == [kind |-> "pad", n |-> n]

TokenLen(t) == IF t.kind \in {"query", "QUERY"} THEN QueryLen ELSE t.n

RECURSIVE TextLen(_)
TextLen(s) == IF s = <<>> THEN 0 ELSE TokenLen(Head(s)) + TextLen(Tail(s))

\* str.lower()
Lower(s) == [i \in DOMAIN s |-> IF s[i] = UpperQuery THEN LowerQuery ELSE s[i]]

\* str.strip()
RECURSIVE StripLeft(_)
StripLeft(s) ==
    IF s # <<>> /\ Head(s) = Space THEN StripLeft(Tail(s)) ELSE s

RECURSIVE StripRight(_)
StripRight(s) ==
    IF s # <<>> /\ s[Len(s)] = Space
        THEN StripRight(SubSeq(s, 1, Len(s) - 1))
        ELSE s

Strip(s) == StripRight(StripLeft(s))

\* match in name, name.find(match) and name.rfind(match), for a match of one
\* token
Occurrences(name, match) == {i \in DOMAIN name : name[i] = match[1]}

Contains(name, match) == Occurrences(name, match) # {}

Find(name, match) ==
    IF ~Contains(name, match) THEN -1
    ELSE LET i == CHOOSE k \in Occurrences(name, match) :
                      \A l \in Occurrences(name, match) : k <= l
         IN  TextLen(SubSeq(name, 1, i - 1))

RFind(name, match) ==
    IF ~Contains(name, match) THEN -1
    ELSE LET i == CHOOSE k \in Occurrences(name, match) :
                      \A l \in Occurrences(name, match) : k >= l
         IN  TextLen(SubSeq(name, 1, i - 1))

\* what the X server holds of one window
Names ==
    { <<LowerQuery>>,
      <<Pad(3), UpperQuery, Pad(1), LowerQuery, Pad(2)>>,
      <<Pad(49), LowerQuery, Pad(50)>>,
      <<Pad(50), LowerQuery, Pad(51)>>,
      <<Pad(160), LowerQuery, Pad(160)>>,
      <<Pad(1)>> }

ClassNames == { <<UpperQuery, Pad(1)>>, <<Pad(1)>> }

Desktops == 0 .. MaxDesktop

GeometryFails == [kind |-> "TypeError"]

WindowGeometries ==
    {GeometryFails} \cup
    {[kind |-> "Geometry", g |-> r] :
        r \in {q \in Rectangles : /\ q.x \in {0, MaxEdge}
                                  /\ q.width = 1 /\ q.height = 1}}

Workareas == {r \in Rectangles : r.width = MaxEdge /\ r.height = MaxEdge}

Clients ==
    [name : Names, class_name : ClassNames,
     desktop : Desktops \cup {ALL_DESKTOPS}, geometry : WindowGeometries]

Matches == { <<LowerQuery>>, <<Space, UpperQuery, Space>> }

MatchIdle ==
    /\ mpc = "idle"
    /\ mMatch = <<>>
    /\ mWindows = <<>>
    /\ mDesktop = 0
    /\ mWorkarea = NullGeometry
    /\ mScored = <<>>
    /\ mResult = <<>>

\* list.reverse()
Reverse(s) == [i \in DOMAIN s |-> s[Len(s) + 1 - i]]

\* windows(), lines 877-886, called with a match and no filter: the windows
\* of the reversed client list
M877 ==
    /\ mpc = "idle"
    /\ \E n \in 1 .. MaxClients :
       \E clients \in [1 .. n -> Clients] :
            mWindows' = Reverse(clients)
    /\ \E match \in Matches : mMatch' = match
    /\ mpc' = "m897"
    /\ UNCHANGED <<mDesktop, mWorkarea, mScored, mResult>>
    /\ UNCHANGED <<wm_type, dispVars, notMatchVars>>

\* lines 904-908 of mapper
NamePointsFarEnd(name, match) ==
    IF name = match THEN 200
    ELSE IF Contains(name, match)
        THEN LET left  == Find(name, match)
                 right == 0 - (RFind(name, match) - TextLen(name)
                               + TextLen(match))
             IN  150 - Max2(left, right)
    ELSE 0

NamePoints(name, match) ==
    IF name = match THEN 200
    ELSE IF Contains(name, match)
        THEN LET left  == Find(name, match)
                 right == 0 - (RFind(name, match) - TextLen(name)
                               + TextLen(match))
             IN  150 - Min2(left, right)
    ELSE 0

\* lines 909-910
ClassPoints(class_name, match) ==
    IF Contains(Lower(class_name), match) THEN 100 ELSE 0

X2(g) == g.x + g.width
Y2(g) == g.y + g.height

\* lines 919-922
Overlaps(geometry, workarea) ==
    /\ geometry.x < X2(workarea) /\ X2(geometry) > workarea.x
    /\ geometry.y < Y2(workarea) /\ Y2(geometry) > workarea.y

\* mapper, lines 902-922
Mapper(window, match, desktop, workarea) ==
    LET points == NamePoints(Lower(window.name), match)
                  + ClassPoints(window.class_name, match)
    IN  IF window.geometry.kind # "Geometry" THEN 0
        ELSE IF /\ points # 0
                /\ \/ window.desktop = desktop
                   \/ window.desktop = ALL_DESKTOPS
            THEN points + 50
                 + (IF Overlaps(window.geometry.g, workarea) THEN 100 ELSE 0)
        ELSE points

\* list.sort(key=lambda win: win[1], reverse=True): stable, highest first
Remove(s, i) == SubSeq(s, 1, i - 1) \o SubSeq(s, i + 1, Len(s))

RECURSIVE SortedByPoints(_)
SortedByPoints(s) ==
    IF s = <<>> THEN <<>>
    ELSE LET i == CHOOSE k \in DOMAIN s :
                      /\ \A l \in DOMAIN s : s[l].points <= s[k].points
                      /\ \A l \in 1 .. k - 1 : s[l].points < s[k].points
         IN  <<s[i]>> \o SortedByPoints(Remove(s, i))

\* line 927: the windows of the pairs whose points are true
RECURSIVE WithPoints(_)
WithPoints(s) ==
    IF s = <<>> THEN <<>>
    ELSE (IF Head(s).points # 0 THEN <<Head(s).win>> ELSE <<>>)
         \o WithPoints(Tail(s))

\* __name_matcher, lines 895-928; a window is named by its place in the list
\* handed to the matcher
M897 ==
    /\ mpc = "m897"
    /\ \E desktop \in Desktops, workarea \in Workareas :
        LET match == Lower(Strip(mMatch))
            scored ==
                [i \in DOMAIN mWindows |->
                    [win |-> i,
                     points |-> Mapper(mWindows[i], match, desktop, workarea)]]
        IN  /\ mDesktop' = desktop
            /\ mWorkarea' = workarea
            /\ mScored' = scored
            /\ mResult' = WithPoints(SortedByPoints(scored))
    /\ mpc' = "done"
    /\ UNCHANGED <<mMatch, mWindows>>
    /\ UNCHANGED <<wm_type, dispVars, notMatchVars>>

MatchDone ==
    /\ mpc = "done"
    /\ mpc' = "idle"
    /\ mMatch' = <<>>
    /\ mWindows' = <<>>
    /\ mDesktop' = 0
    /\ mWorkarea' = NullGeometry
    /\ mScored' = <<>>
    /\ mResult' = <<>>
    /\ UNCHANGED <<wm_type, dispVars, notMatchVars>>


(***************************************************************************)
(* Window's state requests (maximize ... always_below, __change_state) and *)
(* the reads of Window.state and Window.desktop.                           *)
(***************************************************************************)
UNSET == 0
SET == 1
TOGGLE == 2
Modes == {UNSET, SET, TOGGLE}

\* XObject.atom: the server's number of a name, never 0
AtomNames ==
    << "_NET_WM_STATE", "_NET_WM_STATE_STICKY",
       "_NET_WM_STATE_MAXIMIZED_VERT", "_NET_WM_STATE_MAXIMIZED_HORZ",
       "_NET_WM_STATE_SHADED", "_NET_WM_STATE_FULLSCREEN",
       "_NET_WM_STATE_ABOVE", "_NET_WM_STATE_BELOW", "WM_CHANGE_STATE" >>

Atom(name) == CHOOSE i \in DOMAIN AtomNames : AtomNames[i] = name

STICKY         == Atom("_NET_WM_STATE_STICKY")
MAXIMIZED_VERT == Atom("_NET_WM_STATE_MAXIMIZED_VERT")
MAXIMIZED_HORZ == Atom("_NET_WM_STATE_MAXIMIZED_HORZ")
SHADED         == Atom("_NET_WM_STATE_SHADED")
FULLSCREEN     == Atom("_NET_WM_STATE_FULLSCREEN")
ABOVE          == Atom("_NET_WM_STATE_ABOVE")
BELOW          == Atom("_NET_WM_STATE_BELOW")

NoStateCall == [op |-> "none"]
NoStateResult == [kind |-> "none"]

StateIdle ==
    /\ tpc = "idle"
    /\ tCall = NoStateCall
    /\ tSent = <<>>
    /\ tReads = 0
    /\ tResult = NoStateResult

\* XObject.send_event: one client message to the root window
ClientMessage(data, event_type, mask) ==
    [to |-> RootId, client_type |-> event_type, data |-> data, mask |-> mask]

\* __change_state, lines 577-581
ChangeState(data) ==
    /\ Len(tSent) < MaxSent
    /\ tSent' = Append(tSent, ClientMessage(data, Atom("_NET_WM_STATE"),
                                            "SubstructureRedirectMask"))
    /\ tpc' = "done"
    /\ UNCHANGED <<tReads, tResult>>
    /\ UNCHANGED <<wm_type, dispVars, notStVars>>

\* the data of maximize with a third atom in the padding
MaximizeDataUnpadded(mode, vert, horz) == <<mode, horz, vert, vert, 0>>

\* lines 508-511
MaximizeData(mode, vert, horz) == <<mode, horz, vert, 0, 0>>

\* maximize, lines 499-512; False stands in the data as 0
Maximize ==
    /\ tpc = "idle"
    /\ \E mode \in Modes, vert \in {MAXIMIZED_VERT, 0},
          horz \in {MAXIMIZED_HORZ, 0} :
        /\ tCall' = [op |-> "maximize", mode |-> mode]
        /\ ChangeState(MaximizeData(mode, vert, horz))

\* shade, lines 514-519
Shade ==
    /\ tpc = "idle"
    /\ \E mode \in Modes :
        /\ tCall' = [op |-> "shade", mode |-> mode]
        /\ ChangeState(<<mode, SHADED, 0, 0, 0>>)

\* fullscreen, lines 521-526
Fullscreen ==
    /\ tpc = "idle"
    /\ \E mode \in Modes :
        /\ tCall' = [op |-> "fullscreen", mode |-> mode]
        /\ ChangeState(<<mode, FULLSCREEN, 0, 0, 0>>)

\* sticky, lines 528-533
Sticky ==
    /\ tpc = "idle"
    /\ \E mode \in Modes :
        /\ tCall' = [op |-> "sticky", mode |-> mode]
        /\ ChangeState(<<mode, STICKY, 0, 0, 0>>)

\* always_above, lines 535-540
AlwaysAbove ==
    /\ tpc = "idle"
    /\ \E mode \in Modes :
        /\ tCall' = [op |-> "always_above", mode |-> mode]
        /\ ChangeState(<<mode, ABOVE, 0, 0, 0>>)

\* always_below, lines 542-547
AlwaysBelow ==
    /\ tpc = "idle"
    /\ \E mode \in Modes :
        /\ tCall' = [op |-> "always_below", mode |-> mode]
        /\ ChangeState(<<mode, BELOW, 0, 0, 0>>)

\* Xutil's states of a window, as get_wm_state().state answers them
WithdrawnState == 0
NormalState == 1
IconicState == 3
WMStates == {WithdrawnState, NormalState, IconicState}

\* set_state made the opposite of the current state whatever the mode
IconifyTargetToggled(mode, state) ==
    IF state = NormalState THEN <<IconicState>>
    ELSE IF state = IconicState THEN <<NormalState>>
    ELSE <<>>

\* lines 487-492: set_state after the two ifs, <<>> when neither bound it
IconifyTarget(mode, state) ==
    LET first  == IF mode = 1 \/ (mode = 2 /\ state = NormalState)
                  THEN <<IconicState>> ELSE <<>>
    IN  IF mode = 0 \/ (mode = 2 /\ state = IconicState)
        THEN <<NormalState>> ELSE first

\* iconify, lines 484-497
Iconify ==
    /\ tpc = "idle"
    /\ \E mode \in Modes, state \in WMStates :
        LET set_state == IconifyTarget(mode, state)
        IN  /\ tCall' = [op |-> "iconify", mode |-> mode, state |-> state]
            /\ IF set_state = <<>>
               THEN /\ tResult' = [kind |-> "UnboundLocalError"]
                    /\ UNCHANGED tSent
               ELSE /\ Len(tSent) < MaxSent
                    /\ tSent' = Append(tSent,
                            ClientMessage(<<set_state[1], 0, 0, 0, 0>>,
                                          Atom("WM_CHANGE_STATE"),
                                          "SubstructureRedirectMask"))
                    /\ UNCHANGED tResult
    /\ tReads' = tReads + 1
    /\ tpc' = "done"
    /\ UNCHANGED <<wm_type, dispVars, notStVars>>

\* what get_property answers: None, or a property object with a value
Absent == [present |-> FALSE]
Present(value) == [present |-> TRUE, value |-> value]

StateProperties ==
    {Absent} \cup
    {Present(v) : v \in {<<>>, <<STICKY>>, <<MAXIMIZED_VERT, MAXIMIZED_HORZ>>}}

DesktopProperties ==
    {Absent} \cup {Present(<<n>>) : n \in Desktops \cup {ALL_DESKTOPS}}

\* lines 192-194
StateValue(state) == IF ~state.present THEN <<>> ELSE state.value

\* Window.state, lines 187-194
T190 ==
    /\ tpc = "idle"
    /\ \E state \in StateProperties :
        /\ tCall' = [op |-> "state", property |-> state]
        /\ tResult' = [kind |-> "CustomTuple", value |-> StateValue(state)]
    /\ tReads' = tReads + 1
    /\ tpc' = "done"
    /\ UNCHANGED tSent
    /\ UNCHANGED <<wm_type, dispVars, notStVars>>

\* a window without the property taken to be on all desktops
DesktopValueSticky(desktop) ==
    IF ~desktop.present THEN ALL_DESKTOPS ELSE desktop.value[1]

\* lines 248-250
DesktopValue(desktop) == IF ~desktop.present THEN 0 ELSE desktop.value[1]

\* Window.desktop, lines 239-250
T246 ==
    /\ tpc = "idle"
    /\ \E desktop \in DesktopProperties :
        /\ tCall' = [op |-> "desktop", property |-> desktop]
        /\ tResult' = [kind |-> "int", value |-> DesktopValue(desktop)]
    /\ tReads' = tReads + 1
    /\ tpc' = "done"
    /\ UNCHANGED tSent
    /\ UNCHANGED <<wm_type, dispVars, notStVars>>

\* the call has returned; the messages sent stay with the X server
StateDone ==
    /\ tpc = "done"
    /\ tpc' = "idle"
    /\ tCall' = NoStateCall
    /\ tReads' = 0
    /\ tResult' = NoStateResult
    /\ UNCHANGED tSent
    /\ UNCHANGED <<wm_type, dispVars, notStVars>>


(***************************************************************************)
(* Config.load: the loop over the sections of the configuration, lines     *)
(* 163-173.  A section name is its letters and whether it is written in    *)
(* capitals; a section's data either let Section be constructed or make    *)
(* its constructor raise.                                                  *)
(***************************************************************************)
SectionNames == [letters : {"left", "right", "top"}, capitals : BOOLEAN]

\* str.lower()
LowerName(name) == [name EXCEPT !.capitals = FALSE]

ConfigSections == [name : SectionNames, valid : BOOLEAN]

\* ConfigParser keeps one section per name, in the order of the file
ConfigFiles ==
    {f \in UNION {[1 .. n -> ConfigSections] : n \in 1 .. MaxSections} :
        \A i, j \in DOMAIN f : i # j => f[i].name # f[j].name}

\* option names of KEYS are kept in lower case
KeyNames == {n \in SectionNames : ~n.capitals}

ConfigIdle ==
    /\ lpc = "idle"
    /\ lFile = <<>>
    /\ lConfig = <<>>
    /\ lTodo = <<>>
    /\ lKeys = {}
    /\ lSections = <<>>
    /\ lLogged = <<>>

\* lines 106-165: the files are read, KEYS, ALIASES and SETTINGS are taken
\* out, self.sections = {} and the loop starts over self._config.sections()
L164 ==
    /\ lpc = "idle"
    /\ \E file \in ConfigFiles :
        /\ lFile' = file
        /\ lConfig' = file
        /\ lTodo' = file
    /\ \E keys \in SUBSET KeyNames : lKeys' = keys
    /\ lSections' = <<>>
    /\ lLogged' = <<>>
    /\ lpc' = "loop"
    /\ UNCHANGED <<wm_type, dispVars, notCfgVars>>

\* the key of self.sections[...] = ... with the name kept as written
StoreKeyAsWritten(name) == name

\* line 168: section.lower()
StoreKey(name) == LowerName(name)

\* dict[key] = value
Store(dict, key, value) ==
    [k \in DOMAIN dict \cup {key} |-> IF k = key THEN value ELSE dict[k]]

\* list.remove of one section of self._config
RemoveSection(config, name) ==
    SelectSeq(config, LAMBDA s : s.name # name)

\* lines 166-171: one pass of the loop
L166 ==
    /\ lpc = "loop"
    /\ lTodo # <<>>
    /\ LET section == Head(lTodo)
           key == IF section.name \in lKeys THEN "key" ELSE "None"
       IN  /\ lKeys' = lKeys \ {section.name}
           /\ IF section.valid
              THEN /\ lSections' =
                        Store(lSections, StoreKey(section.name),
                              [section |-> section.name, key |-> key])
                   /\ UNCHANGED lLogged
              ELSE /\ lLogged' = Append(lLogged, section.name)
                   /\ UNCHANGED lSections
           /\ lConfig' = RemoveSection(lConfig, section.name)
           /\ lTodo' = Tail(lTodo)
    /\ UNCHANGED <<lpc, lFile>>
    /\ UNCHANGED <<wm_type, dispVars, notCfgVars>>

\* line 173: the loop is over and load returns
L173 ==
    /\ lpc = "loop"
    /\ lTodo = <<>>
    /\ lpc' = "done"
    /\ UNCHANGED <<lFile, lConfig, lTodo, lKeys, lSections, lLogged>>
    /\ UNCHANGED <<wm_type, dispVars, notCfgVars>>

ConfigDone ==
    /\ lpc = "done"
    /\ lpc' = "idle"
    /\ lFile' = <<>>
    /\ lConfig' = <<>>
    /\ lTodo' = <<>>
    /\ lKeys' = {}
    /\ lSections' = <<>>
    /\ lLogged' = <<>>
    /\ UNCHANGED <<wm_type, dispVars, notCfgVars>>


(***************************************************************************)
(* Geometry(x, y, width, height, gravity) and Geometry.set_position.  The  *)
(* stored x and y are kept in halves, as a gravity is: 0, 1, 2 stand for   *)
(* 0, 0.5, 1.                                                              *)
(***************************************************************************)
NoGeometryObject == [kind |-> "none"]
NoPositionCall == [op |-> "none"]

PositionIdle ==
    /\ pGeo = NoGeometryObject
    /\ pLast = NoPositionCall

PositionPoints == [x : 0 .. MaxCoord, y : 0 .. MaxCoord]
PositionSizes == [width : 1 .. MaxSize, height : 1 .. MaxSize]

\* the top-left corner left at the point, whatever the gravity
AnchoredTopLeft(point, width, height, gravity) ==
    [x |-> 2 * point.x, y |-> 2 * point.y]

\* the top-left corner of a rectangle whose anchor gravity lies at point
Anchored(point, width, height, gravity) ==
    [x |-> 2 * point.x - width * gravity.x,
     y |-> 2 * point.y - height * gravity.y]

\* Geometry(x, y, width, height, gravity)
NewGeometry ==
    /\ \E point \in PositionPoints, size \in PositionSizes,
          gravity \in Gravities :
        LET corner == Anchored(point, size.width, size.height, gravity)
        IN  /\ pGeo' = [kind |-> "Geometry", x |-> corner.x, y |-> corner.y,
                        width |-> size.width, height |-> size.height]
            /\ pLast' = [op |-> "Geometry", point |-> point,
                         gravity |-> gravity]
    /\ UNCHANGED <<wm_type, dispVars, notPosVars>>

\* Geometry.set_position(x, y, gravity)
SetPosition ==
    /\ pGeo.kind = "Geometry"
    /\ \E point \in PositionPoints, gravity \in Gravities :
        LET corner == Anchored(point, pGeo.width, pGeo.height, gravity)
        IN  /\ pGeo' = [pGeo EXCEPT !.x = corner.x, !.y = corner.y]
            /\ pLast' = [op |-> "set_position", point |-> point,
                         gravity |-> gravity]
    /\ UNCHANGED <<wm_type, dispVars, notPosVars>>


(***************************************************************************)
(* Window.extents over the window tree, lines 315-334 and 341, when the    *)
(* frame extents property is absent and the window manager is one of       *)
(* CALCULATE_EXTENTS.  The tree is the chain of the window and its         *)
(* ancestors below the root, the window first.                             *)
(***************************************************************************)
Frames ==
    [x : 0 .. MaxCoord, y : {0}, width : 1 .. MaxSize, height : 1 .. MaxSize,
     border_width : 0 .. MaxBorder]

Chains == UNION {[1 .. n -> Frames] : n \in 1 .. MaxChain}

ChainIdle ==
    /\ hpc = "idle"
    /\ hChain = <<>>
    /\ hResult = NoExtentsResult

\* lines 321-322
SameSize(win_geo, parent_geo) ==
    /\ win_geo.width = parent_geo.width
    /\ win_geo.height = parent_geo.height

\* query_tree().parent of the frame at place i is the root
ParentIsRoot(chain, i) == i = Len(chain)

\* lines 317-334: the four values handed to Extents
ChainExtents(chain) ==
    IF ParentIsRoot(chain, 1) THEN <<None, None, None, None>>
    ELSE LET win == IF SameSize(chain[1], chain[2]) THEN 2 ELSE 1
         IN  IF ParentIsRoot(chain, win) THEN <<None, None, None, None>>
             ELSE Calculated(chain[win], chain[win + 1])

\* Window.extents of a window in its tree
H315 ==
    /\ hpc = "idle"
    /\ wm_type \in CALCULATE_EXTENTS
    /\ \E chain \in Chains :
        /\ hChain' = chain
        /\ hResult' = Extents(ChainExtents(chain))
    /\ hpc' = "done"
    /\ UNCHANGED <<wm_type, dispVars, notChainVars>>

ChainDone ==
    /\ hpc = "done"
    /\ hpc' = "idle"
    /\ hChain' = <<>>
    /\ hResult' = NoExtentsResult
    /\ UNCHANGED <<wm_type, dispVars, notChainVars>>


(***************************************************************************)
(* WindowManager.desktop_layout, lines 754-768                             *)
(***************************************************************************)
NoLayoutCall == [op |-> "none"]
NoLayoutResult == [kind |-> "none"]

LayoutIdle ==
    /\ oCall = NoLayoutCall
    /\ oResult = NoLayoutResult

\* _NET_DESKTOP_LAYOUT: orientation, columns, rows, starting corner
LayoutProperties ==
    {Absent} \cup
    {Present(<<orientation, cols, rows, corner>>) :
        orientation \in 0 .. 1, cols \in 0 .. MaxLayout,
        rows \in 0 .. MaxLayout, corner \in 0 .. 1}

\* the missing dimension rounded down
InferredDown(desktops, other) == desktops \div other

\* lines 765-766: desktops / other + min([1, desktops % other])
Inferred(desktops, other) ==
    desktops \div other + Min2(1, desktops % other)

\* lines 761-767
LayoutOf(layout, desktops) ==
    IF ~layout.present THEN [kind |-> "None"]
    ELSE LET orientation == layout.value[1]
             cols0 == layout.value[2]
             rows0 == layout.value[3]
             corner == layout.value[4]
         IN  IF cols0 = 0 /\ rows0 = 0 THEN [kind |-> "ZeroDivisionError"]
             ELSE LET cols == IF cols0 # 0 THEN cols0
                              ELSE Inferred(desktops, rows0)
                  IN  IF rows0 = 0 /\ cols = 0
                      THEN [kind |-> "ZeroDivisionError"]
                      ELSE [kind |-> "Layout",
                            cols |-> cols,
                            rows |-> IF rows0 # 0 THEN rows0
                                     ELSE Inferred(desktops, cols),
                            orientation |-> orientation,
                            corner |-> corner]

\* a read of desktop_layout
O761 ==
    /\ oCall = NoLayoutCall
    /\ \E layout \in LayoutProperties, desktops \in 1 .. MaxDesktops :
        /\ oCall' = [op |-> "desktop_layout", layout |-> layout,
                     desktops |-> desktops]
        /\ oResult' = LayoutOf(layout, desktops)
    /\ UNCHANGED <<wm_type, dispVars, notLayoutVars>>

LayoutDone ==
    /\ oCall # NoLayoutCall
    /\ oCall' = NoLayoutCall
    /\ oResult' = NoLayoutResult
    /\ UNCHANGED <<wm_type, dispVars, notLayoutVars>>


(***************************************************************************)
(* Section.__init__, config.py lines 40-67: the gravity, direction and     *)
(* position of a section.  Gravity.parse is in pywo/core/basic.py; it is    *)
(* modelled after tests/test_core_basics.py and the specification: empty    *)
(* text gives no value, a malformed text raises ValueError.                 *)
(***************************************************************************)
NoSectionData == [op |-> "none"]
NoSection == [kind |-> "none"]

SectionIdle ==
    /\ kData = NoSectionData
    /\ kSection = NoSection

\* the texts a section gives for a key; "" is an absent or empty key
GravityTexts == {"", "TOP", "UP", "1, 0", "HALF, HALF", "top"}

\* the texts Gravity.parse accepts
WellFormed(text) == text \in {"", "TOP", "UP", "1, 0", "HALF, HALF"}

\* Gravity.parse of a well-formed text, anchors in halves
GravityParse(text) ==
    CASE text = "" -> None
      [] text \in {"TOP", "UP"} -> Concrete([x |-> 1, y |-> 0])
      [] text = "1, 0" -> Concrete([x |-> 2, y |-> 0])
      [] text = "HALF, HALF" -> Concrete([x |-> 1, y |-> 1])

\* lines 53-64
SectionOf(data) ==
    IF ~(WellFormed(data.gravity) /\ WellFormed(data.direction)
            /\ WellFormed(data.position))
    THEN [kind |-> "ValueError"]
    ELSE LET gravity0 == GravityParse(data.gravity)
             direction0 == GravityParse(data.direction)
             direction == IF direction0 = None THEN gravity0 ELSE direction0
             position0 == GravityParse(data.position)
             position == IF position0 = None THEN gravity0 ELSE position0
             gravity == IF position0 # None /\ gravity0 = None
                        THEN position0 ELSE gravity0
         IN  [kind |-> "Section", gravity |-> gravity,
              direction |-> direction, position |-> position]

\* Section(config, section, key)
NewSection ==
    /\ kData = NoSectionData
    /\ \E gravity, direction, position \in GravityTexts :
        LET data == [op |-> "Section", gravity |-> gravity,
                     direction |-> direction, position |-> position]
        IN  /\ kData' = data
            /\ kSection' = SectionOf(data)
    /\ UNCHANGED <<wm_type, dispVars, notSectVars>>

SectionDone ==
    /\ kData # NoSectionData
    /\ kData' = NoSectionData
    /\ kSection' = NoSection
    /\ UNCHANGED <<wm_type, dispVars, notSectVars>>

(***************************************************************************)
(* The caller thread making calls with the handlers of H, and the dispatch *)
(* thread's loop without and with pending events.                          *)
(***************************************************************************)
Calls(H) ==
    \/ \E w \in WindowIds, h \in H : Register(w, h)
    \/ RegisterStart
    \/ UnregisterAll
    \/ \E w \in WindowIds, h \in H \cup {0} : Unregister(w, h)
    \/ CallerDone

RunLoop == LoopTest \/ PollIdle \/ ThreadExit

Dispatch ==
    \/ PollEvent
    \/ D128 \/ D131 \/ D133 \/ D135 \/ D137 \/ DExt \/ D139 \/ D140 \/ D141

\* no call on a Window is under way
WindowIdle ==
    /\ ExtentsIdle
    /\ GeometryIdle
    /\ SetGeometryIdle
    /\ NearestIdle
    /\ MatchIdle
    /\ StateIdle
    /\ ConfigIdle
    /\ PositionIdle
    /\ ChainIdle
    /\ LayoutIdle
    /\ SectionIdle

WindowInit == wm_type = UNKNOWN /\ WindowIdle

Init == DispatchInit /\ WindowInit

\* Calls with every handler, while the display has no event pending.
Next == Calls(Handlers) \/ RegisterIter \/ UnregisterIter \/ RunLoop

Spec == Init /\ [][Next]_vars

\* Calls with the handlers of the delivered event types, and events.
NextDispatch == Calls(DispatchHandlers) \/ RunLoop \/ Dispatch

SpecDispatch == Init /\ [][NextDispatch]_vars

\* The dispatch thread is a thread of its own, which the scheduler runs.
FairSpec == Spec /\ WF_vars(RunLoop)

\* Calls of Window.extents, under each window manager.
InitExtents ==
    /\ DispatchInit
    /\ wm_type \in WindowManagerTypes
    /\ WindowIdle

NextExtents == E313 \/ E315 \/ E318 \/ E321 \/ E326 \/ E341 \/ ExtentsDone

SpecExtents == InitExtents /\ [][NextExtents]_vars

\* Calls of Window.geometry, under each window manager; line 358 is the
\* call of Window.extents.
NextGeometry ==
    \/ G356
    \/ (gpc = "g358" /\ E313)
    \/ E315 \/ E318 \/ E321 \/ E326 \/ E341
    \/ G359
    \/ GeometryDone

SpecGeometry == InitExtents /\ [][NextGeometry]_vars

\* Calls of Window.set_geometry.
NextSetGeometry == S386 \/ S398 \/ S403 \/ SetGeometryDone

SpecSetGeometry == Init /\ [][NextSetGeometry]_vars


\* Calls of WindowManager.nearest_screen_geometry.
NextNearest == N839 \/ N845 \/ NearestDone

SpecNearest == Init /\ [][NextNearest]_vars

NextMatch == M877 \/ M897 \/ MatchDone

SpecMatch == Init /\ [][NextMatch]_vars

NextState ==
    \/ Maximize \/ Shade \/ Fullscreen \/ Sticky \/ AlwaysAbove \/ AlwaysBelow
    \/ Iconify \/ T190 \/ T246 \/ StateDone

SpecState == Init /\ [][NextState]_vars

\* the reads of optional properties, one call at a time
NextDefaults ==
    \/ (tpc = "idle" /\ E313) \/ E315 \/ E318 \/ E321 \/ E326 \/ E341
    \/ ExtentsDone
    \/ (epc = "idle" /\ T190) \/ (epc = "idle" /\ T246) \/ StateDone

SpecDefaults == InitExtents /\ [][NextDefaults]_vars

NextConfig == L164 \/ L166 \/ L173 \/ ConfigDone

SpecConfig == Init /\ [][NextConfig]_vars

NextPosition == NewGeometry \/ SetPosition

SpecPosition == Init /\ [][NextPosition]_vars

NextChain == H315 \/ ChainDone

SpecChain == Init /\ [][NextChain]_vars

NextLayout == O761 \/ LayoutDone

SpecLayout == Init /\ [][NextLayout]_vars

NextSection == NewSection \/ SectionDone

SpecSection == Init /\ [][NextSection]_vars








(***************************************************************************)
(* Properties of the EventDispatcher.                                      *)
(***************************************************************************)
Range(q) == { q[i] : i \in DOMAIN q }

\* the handlers in the entry of window w of event type t
KeyedOn(hs, t, w) ==
    IF t \in DOMAIN hs /\ w \in DOMAIN hs[t] THEN hs[t][w] ELSE {}

\* some handler is in self.__handlers
HasHandler == \E t \in DOMAIN handlers : \E w \in DOMAIN handlers[t] :
                  handlers[t][w] # {}

\* the loop of run is running
LoopRunning == thread = "alive" /\ dpc \notin {"stopped", "raised"}

RegisteredFor(w) == { h \in Handlers : <<w, h>> \in registered }
MaskUnion(H) == UNION { HandlerMasks(h) : h \in H }

\* C1: once the last remaining handler has been unregistered and the call
\* has returned, the dispatch loop eventually stops (unless a handler is
\* registered again).
C1_LoopStopsWithoutHandlers ==
    (registered = {} /\ cpc = "idle") ~> (~LoopRunning \/ registered # {})

\* C2: when a register call ends, the dispatch loop is running; register
\* never ends with a handler in the set and no loop running.
C2_RegisterStartsLoop ==
    (cpc = "returned" /\ cOp.op = "register") => LoopRunning

\* C3: the dispatch loop never stops while at least one handler is
\* registered, under every interleaving of the two threads.
C3_LoopKeepsRunning ==
    [][(LoopRunning /\ ~LoopRunning') => ~HasHandler]_vars

\* C4: register(window, handler) returns exactly the union of the masks of
\* the handlers registered for that window, over all event types, and no
\* mask of a handler registered only for another window.
C4_RegisterReturnsUnion ==
    (cpc = "returned" /\ cOp.op = "register" /\ cResult.kind = "set")
        => cResult.masks = MaskUnion(RegisteredFor(cOp.window))

\* register returned for a window holding handlers of different event types,
\* while another window holds a handler this window does not
C4_Witness ==
    /\ cpc = "returned" /\ cOp.op = "register" /\ cResult.kind = "set"
    /\ \E h1 \in RegisteredFor(cOp.window), h2 \in RegisteredFor(cOp.window) :
           HandlerTypes(h1) \cap HandlerTypes(h2) = {}
    /\ \E p \in registered : p[1] # cOp.window /\ p[2] \notin RegisteredFor(cOp.window)

\* C5: unregister returns the recomputed mask of the affected window: the
\* union of the masks of the handlers still registered for it; after
\* unregister() no handler remains for any window and the mask is empty.
C5_UnregisterReturnsRemaining ==
    (cpc = "returned" /\ cOp.op = "unregister")
        => IF cOp.window = NoField
           THEN cResult.masks = {} /\ ~HasHandler
           ELSE cResult.masks = MaskUnion(RegisteredFor(cOp.window))

\* unregister(window, handler) returned the mask of the handlers that remain
C5_Witness ==
    /\ cpc = "returned" /\ cOp.op = "unregister" /\ cOp.handler # 0
    /\ RegisteredFor(cOp.window) # {}
    /\ cResult.masks # {}
    /\ HandlerMasks(cOp.handler) \cap cResult.masks # HandlerMasks(cOp.handler)

\* the most specific addressing field the event has
MostSpecificField(e) ==
    IF e.parent # NoField THEN e.parent
    ELSE IF e.event # NoField THEN e.event ELSE e.window

\* the first addressing field the event has that is a key of th
FirstKeyedField(e, th) ==
    IF e.parent # NoField /\ e.parent \in DOMAIN th THEN e.parent
    ELSE IF e.event # NoField /\ e.event \in DOMAIN th THEN e.event
    ELSE IF e.window # NoField /\ e.window \in DOMAIN th THEN e.window
    ELSE NoField

\* C6 as stated: the handlers invoked for an event are those keyed on its
\* most specific addressing field (parent, else event, else window) or on
\* the root; with a parent field, no handler keyed only on another window
\* is invoked.
C6_MostSpecificFieldOnly ==
    (dQuiet /\ dpc \in {"dret", "raised"} /\ dEvent.type \in DOMAIN handlers)
        => Range(invoked) \subseteq
               KeyedOn(handlers, dEvent.type, MostSpecificField(dEvent))
               \cup KeyedOn(handlers, dEvent.type, RootId)

\* C6: the handlers invoked for an event are taken from the entry of one
\* addressing field, the first of parent, event, window that the event has
\* and that the dispatch thread finds as a key of the event type's map, or
\* from the root's entry; an event with a parent field alone selects the
\* parent's entry or none.
C6_FirstKeyedFieldOnly ==
    /\ (dQuiet /\ dpc \in {"d141", "dret", "raised"}
           /\ dEvent.type \in DOMAIN handlers)
        => Range(invoked) \cup Range(dList) \subseteq
               KeyedOn(handlers, dEvent.type,
                       FirstKeyedField(dEvent, handlers[dEvent.type]))
               \cup KeyedOn(handlers, dEvent.type, RootId)
    /\ (dpc \in {"dext", "d139", "d140", "d141", "dret", "raised"}
           /\ dKey # NoField)
        => \/ "parent" \notin dMissed /\ dKey = dEvent.parent
           \/ dMissed = {"parent"} /\ dKey = dEvent.event
           \/ dMissed = {"parent", "event"} /\ dKey = dEvent.window
    /\ (dEvent.event = NoField /\ dEvent.window = NoField)
        => dKey \in {NoField, dEvent.parent}

\* an event with a parent nothing is keyed on was delivered to the handlers
\* keyed on its window
C6_Witness ==
    /\ dQuiet /\ dpc = "dret"
    /\ dEvent.parent # NoField /\ "parent" \in dMissed
    /\ dKey = dEvent.window /\ dKey # NoField
    /\ dKey # dEvent.parent /\ dKey # RootId
    /\ invoked # <<>>

\* C7: a handler registered against the root window for an event type is
\* invoked for every dispatched event of that type.
C7_RootHandlersAlwaysInvoked ==
    (dQuiet /\ dpc \in {"dret", "raised"} /\ dEvent.type \in DOMAIN handlers)
        => KeyedOn(handlers, dEvent.type, RootId) \subseteq Range(invoked)

\* C8: when a handle_event call fails, the other handlers selected for the
\* event are still invoked and the dispatch loop keeps running.
C8_FaultIsolation ==
    dFailed => (LoopRunning /\ dList = <<>>)

\* C9: no register or unregister call changes self.__handlers while the
\* dispatch thread is in the middle of reading it.
C9_MutualExclusion ==
    [][(dpc \in {"d131", "d133", "d135", "d137", "dext", "d139", "d140"})
           => (handlers' = handlers)]_vars

(***************************************************************************)
(* Properties of Window.extents.                                           *)
(***************************************************************************)
\* C10: whenever Window.extents returns, the four fields of the Extents are
\* all None or all integers, never a mix.
C10_ExtentsAllOrNone ==
    eResult.kind = "Extents"
        => \/ \A i \in 1..4 : eResult.fields[i] = None
           \/ \A i \in 1..4 : eResult.fields[i] # None

\* extents calculated from the geometry of the window's parent and of the
\* parent's parent were returned
C10_Witness ==
    /\ epc = "done" /\ eResult.kind = "Extents"
    /\ wm_type \in CALCULATE_EXTENTS
    /\ eWin = "parent"
    /\ \A i \in 1..4 : eResult.fields[i] # None
    /\ eResult.fields[1] # eResult.fields[3]

(***************************************************************************)
(* Properties of Window.geometry.                                          *)
(***************************************************************************)
\* C11: the geometry Window.geometry returns includes the decorations: with
\* extents (left, right, top, bottom) whose fields are integers and raw size
\* (w, h), its width is w + left + right and its height h + top + bottom.
C11_GeometryIncludesDecorations ==
    (gpc = "done" /\ eResult.kind = "Extents" /\ Known(eResult))
        => /\ gResult.kind = "Geometry"
           /\ gResult.width = gGeo.width + Left(eResult) + Right(eResult)
           /\ gResult.height = gGeo.height + Top(eResult) + Bottom(eResult)

\* a geometry was returned for a window with decorations on all sides
C11_Witness ==
    /\ gpc = "done" /\ gResult.kind = "Geometry"
    /\ Left(eResult) + Right(eResult) > 0
    /\ Top(eResult) + Bottom(eResult) > 0
    /\ gResult.width > gGeo.width /\ gResult.height > gGeo.height

(***************************************************************************)
(* Properties of Window.set_geometry.                                      *)
(***************************************************************************)
\* a configure request was sent
Configured == spc = "done" /\ sConfigure.kind = "configure"

\* the size asked for without the decorations
TargetWidth == sGeometry.width - Horizontal(sExtents)
TargetHeight == sGeometry.height - Vertical(sExtents)

\* C12: with width increment 10, base width 0, minimum width 20 and no
\* maximum width, a target client width of 33 is configured as 30 and one
\* of 17 as 20, whatever the window's current width is.
C12_QuantizationExample ==
    (Configured /\ sHints.present
        /\ sHints.width_inc = 10 /\ sHints.base_width = 0
        /\ sHints.min_width = 20 /\ sHints.max_width = 0)
        => /\ TargetWidth = 33 => sConfigure.width = 30
           /\ TargetWidth = 17 => sConfigure.width = 20

\* C13 as stated: the configured position is the requested x and y plus
\* the part of the size change the on_resize gravity gives (in halves), and
\* the requested position when the size is unchanged.
C13_AnchorFromRequested ==
    Configured
        => /\ sConfigure.x = 2 * sGeometry.x
                  + (TargetWidth - sConfigure.width) * sOnResize.x
           /\ sConfigure.y = 2 * sGeometry.y
                  + (TargetHeight - sConfigure.height) * sOnResize.y

\* the position lines 405-407 start from
StartX == IF sHints.present /\ sHints.win_gravity = StaticGravity
          THEN sGeometry.x + sExtents.fields[1][1] ELSE sGeometry.x
StartY == IF sHints.present /\ sHints.win_gravity = StaticGravity
          THEN sGeometry.y + sExtents.fields[3][1] ELSE sGeometry.y

\* C13: the configured position is the start position (the requested one,
\* moved by extents.left and extents.top when the hints say StaticGravity)
\* plus the part of the size change the on_resize gravity gives: gravity 0
\* keeps the start edge, gravity 1 the opposite edge, and an unchanged size
\* keeps the start position.
C13_AnchorPreserved ==
    Configured
        => /\ sConfigure.x = 2 * StartX
                  + (TargetWidth - sConfigure.width) * sOnResize.x
           /\ sConfigure.y = 2 * StartY
                  + (TargetHeight - sConfigure.height) * sOnResize.y
           /\ sOnResize.x = 2
                => sConfigure.x + 2 * sConfigure.width = 2 * (StartX + TargetWidth)
           /\ sOnResize.y = 0 => sConfigure.y = 2 * StartY

\* the hints changed the width and the right edge was kept
C13_Witness ==
    /\ Configured
    /\ sConfigure.width # TargetWidth
    /\ sOnResize.x = 2
    /\ sConfigure.x # 2 * StartX
    /\ sConfigure.x + 2 * sConfigure.width = 2 * (StartX + TargetWidth)

\* the size the hints of one axis give a target: to the maximum, to the
\* minimum, then down to the grid of increments, one increment up when that
\* falls below the minimum
HintedSize(target, max, min, inc, declared, current) ==
    LET capped  == IF max # 0 /\ target > max THEN max ELSE target
        floored == IF min # 0 /\ capped < min THEN min ELSE capped
        base    == IF declared # 0 THEN declared ELSE current % inc
        grid    == ((floored - base) \div inc) * inc + base
    IN  IF inc = 0 THEN floored
        ELSE IF min # 0 /\ grid < min THEN grid + inc
        ELSE grid

\* C22: on each axis the configured size is the target clamped to the
\* maximum, then to the minimum, then quantized from the declared base or
\* from the current size modulo the increment, with one increment added
\* when the quantized size is below the minimum; it is at least the minimum.
C22_HintsInOrder ==
    (Configured /\ sHints.present) =>
        /\ sConfigure.width =
                HintedSize(TargetWidth, sHints.max_width, sHints.min_width,
                           sHints.width_inc, sHints.base_width, sCurrent.width)
        /\ sConfigure.height =
                HintedSize(TargetHeight, sHints.max_height, sHints.min_height,
                           sHints.height_inc, sHints.base_height,
                           sCurrent.height)
        /\ sHints.min_width # 0 => sConfigure.width >= sHints.min_width
        /\ sHints.min_height # 0 => sConfigure.height >= sHints.min_height

\* C28: with a minimum that is unset or not above the maximum, the
\* configured width is at most a set max_width and the configured height at
\* most a set max_height.
C28_NeverAboveMaximum ==
    (Configured /\ sHints.present) =>
        /\ ( /\ sHints.max_width # 0
             /\ sHints.min_width <= sHints.max_width )
                => sConfigure.width <= sHints.max_width
        /\ ( /\ sHints.max_height # 0
             /\ sHints.min_height <= sHints.max_height )
                => sConfigure.height <= sHints.max_height

(***************************************************************************)
(* Properties of WindowManager.nearest_screen_geometry.                    *)
(***************************************************************************)
\* C14: the screen nearest_screen_geometry selects intersects the rectangle,
\* and no screen has a strictly larger intersection area with it.
C14_LargestIntersection ==
    npc = "n845"
        => /\ \E i \in DOMAIN nScreens : nScreens[i] = nScreen
           /\ Intersect(nScreen, nGeometry) # NullGeometry
           /\ \A i \in DOMAIN nScreens :
                  Area(Intersect(nScreens[i], nGeometry))
                      <= Area(Intersect(nScreen, nGeometry))

\* of two screens the rectangle overlaps, the first one, with the larger
\* overlap, was selected
C14_Witness ==
    /\ npc = "n845"
    /\ Len(nScreens) = 2
    /\ nScreen = nScreens[1]
    /\ Intersect(nScreens[2], nGeometry) # NullGeometry
    /\ Area(Intersect(nScreens[2], nGeometry))
           < Area(Intersect(nScreens[1], nGeometry))

\* rectangle a lies within rectangle b
Contained(a, b) ==
    /\ a.x >= b.x /\ a.y >= b.y
    /\ a.x + a.width <= b.x + b.width
    /\ a.y + a.height <= b.y + b.height

\* C15: nearest_screen_geometry always returns a geometry, never an empty
\* result, and the geometry lies within the workarea geometry.
C15_WithinWorkarea ==
    npc = "done"
        => /\ nResult.kind = "Geometry"
           /\ nResult.g # NullGeometry
           /\ Contained(nResult.g, nWorkarea)


NamedBy(e) == {e.parent, e.event, e.window} \ {NoField}

\* C27: when no register or unregister call is under way, a handler the
\* dispatch thread calls for an event is in the entry of a window the event
\* names, or of the root: a handler that an unregister call which has
\* returned took out of them, and that was not registered again, is not
\* called.
C27_NotInvokedAfterUnregister ==
    [][ (dpc = "d141" /\ dpc' # "d141" /\ cpc \in {"idle", "returned"}) =>
            \A h \in Range(invoked') :
                \E w \in NamedBy(dEvent) \cup {RootId} :
                    h \in KeyedOn(handlers, dEvent.type, w) ]_vars

(***************************************************************************)
(* Properties of the name matcher.                                         *)
(***************************************************************************)
Matched == Lower(Strip(mMatch))

NameOf(i) == Lower(mWindows[i].name)

ExactName(i) == NameOf(i) = Matched

SubstringName(i) == Contains(NameOf(i), Matched) /\ ~ExactName(i)

ClassMatch(i) == Contains(Lower(mWindows[i].class_name), Matched)

ClassOnly(i) == ClassMatch(i) /\ ~Contains(NameOf(i), Matched)

\* distance of the query from the nearer end of the name
EdgeDistance(i) ==
    LET occ   == Occurrences(NameOf(i), Matched)
        first == CHOOSE k \in occ : \A l \in occ : k <= l
        last  == CHOOSE k \in occ : \A l \in occ : k >= l
    IN  Min2(TextLen(SubSeq(NameOf(i), 1, first - 1)),
             TextLen(SubSeq(NameOf(i), last + 1, Len(NameOf(i)))))

Readable(i) == mWindows[i].geometry.kind = "Geometry"

OnDesktop(i) == mWindows[i].desktop \in {mDesktop, ALL_DESKTOPS}

InWorkarea(i) == Readable(i) /\ Overlaps(mWindows[i].geometry.g, mWorkarea)

SameBonus(i, j) ==
    /\ Readable(i) /\ Readable(j)
    /\ OnDesktop(i) = OnDesktop(j)
    /\ OnDesktop(i) => (InWorkarea(i) = InWorkarea(j))

\* C16 as stated: whatever the desktops, overlaps and name lengths, a window
\* whose name equals the query scores strictly higher than a window whose
\* name only contains it, which scores strictly higher than a window matched
\* only by its class name.
C16_NameBeatsClass ==
    mpc = "done" =>
        \A i, j \in DOMAIN mScored :
            /\ ExactName(i) /\ SubstringName(j)
                => mScored[i].points > mScored[j].points
            /\ SubstringName(i) /\ ClassOnly(j)
                => mScored[i].points > mScored[j].points

\* C16, amended: among windows whose geometry can be read and that get the
\* same desktop and workarea bonuses, the exact name scores strictly higher
\* than the containing name when it matches by class whenever the other does,
\* and the containing name scores strictly higher than the class-only match
\* when the query lies less than 50 characters from the nearer end of the
\* name.
C16_NameBeatsClassSameBonus ==
    mpc = "done" =>
        \A i, j \in DOMAIN mScored :
            SameBonus(i, j) =>
                /\ ( /\ ExactName(i) /\ SubstringName(j)
                     /\ (ClassMatch(j) => ClassMatch(i)) )
                    => mScored[i].points > mScored[j].points
                /\ ( /\ SubstringName(i) /\ ClassOnly(j)
                     /\ EdgeDistance(i) < 50 )
                    => mScored[i].points > mScored[j].points

C16_Witness ==
    /\ mpc = "done"
    /\ Len(mScored) = 2
    /\ SameBonus(1, 2)
    /\ SubstringName(1) /\ EdgeDistance(1) = 49 /\ ~ClassMatch(1)
    /\ ClassOnly(2)
    /\ OnDesktop(1) /\ InWorkarea(1)
    /\ mScored[1].points = mScored[2].points + 1

PointsOf(i) == mScored[i].points

\* C17: the result holds exactly the windows whose score is positive, each
\* once, highest score first, windows of equal score in the order of the
\* input list.
C17_PositiveSortedStable ==
    mpc = "done" =>
        /\ Range(mResult) = {i \in DOMAIN mScored : PointsOf(i) > 0}
        /\ \A k, l \in DOMAIN mResult :
            k < l =>
                /\ mResult[k] # mResult[l]
                /\ PointsOf(mResult[k]) >= PointsOf(mResult[l])
                /\ PointsOf(mResult[k]) = PointsOf(mResult[l])
                    => mResult[k] < mResult[l]


(***************************************************************************)
(* Properties of the state requests and of the reads of optional           *)
(* properties.                                                             *)
(***************************************************************************)
ChangeOps ==
    {"maximize", "shade", "fullscreen", "sticky", "always_above",
     "always_below"}

StateAtoms ==
    {STICKY, MAXIMIZED_VERT, MAXIMIZED_HORZ, SHADED, FULLSCREEN, ABOVE, BELOW}

LastSent == tSent[Len(tSent)]

\* C18: a call of maximize, shade, fullscreen, sticky, always_above or
\* always_below adds exactly one _NET_WM_STATE client message to those sent,
\* whose data are the given mode, two places that each hold a state atom or
\* 0, and two zeros; it reads no property and changes nothing else.
C18_OneStateMessage ==
    [][ (tpc = "idle" /\ tpc' = "done" /\ tCall'.op \in ChangeOps) =>
            ( /\ Len(tSent') = Len(tSent) + 1
              /\ SubSeq(tSent', 1, Len(tSent)) = tSent
              /\ LastSent'.to = RootId
              /\ LastSent'.client_type = Atom("_NET_WM_STATE")
              /\ Len(LastSent'.data) = 5
              /\ LastSent'.data[1] = tCall'.mode
              /\ LastSent'.data[2] \in StateAtoms \cup {0}
              /\ LastSent'.data[3] \in StateAtoms \cup {0}
              /\ LastSent'.data[4] = 0
              /\ LastSent'.data[5] = 0
              /\ tReads' = 0
              /\ tResult' = NoStateResult
              /\ UNCHANGED <<wm_type, dispVars, notStVars>> ) ]_vars

C18_Witness ==
    /\ tpc = "done"
    /\ tCall = [op |-> "maximize", mode |-> TOGGLE]
    /\ Len(tSent) = 2
    /\ tSent[1].data = <<SET, STICKY, 0, 0, 0>>
    /\ LastSent.data = <<TOGGLE, MAXIMIZED_HORZ, MAXIMIZED_VERT, 0, 0>>

\* C24: iconify with SET sends one WM_CHANGE_STATE message asking for the
\* iconic state and with UNSET one asking for the normal state, whatever the
\* state of the window; with TOGGLE it asks for iconic from normal and for
\* normal from iconic, and from any other state the call fails and sends
\* nothing.
C24_IconifyTargets ==
    [][ (tpc = "idle" /\ tpc' = "done" /\ tCall'.op = "iconify") =>
            LET mode  == tCall'.mode
                state == tCall'.state
                asked == IF mode = SET THEN IconicState
                         ELSE IF mode = UNSET THEN NormalState
                         ELSE IF state = NormalState THEN IconicState
                         ELSE NormalState
            IN  IF mode = TOGGLE /\ state \notin {NormalState, IconicState}
                THEN /\ tSent' = tSent
                     /\ tResult'.kind = "UnboundLocalError"
                ELSE /\ Len(tSent') = Len(tSent) + 1
                     /\ SubSeq(tSent', 1, Len(tSent)) = tSent
                     /\ LastSent'.client_type = Atom("WM_CHANGE_STATE")
                     /\ LastSent'.data = <<asked, 0, 0, 0, 0>>
                     /\ tResult' = NoStateResult ]_vars

C24_Witness ==
    /\ tpc = "done"
    /\ tCall = [op |-> "iconify", mode |-> TOGGLE, state |-> WithdrawnState]
    /\ tResult.kind = "UnboundLocalError"
    /\ Len(tSent) = 1
    /\ tSent[1].client_type = Atom("WM_CHANGE_STATE")
    /\ tSent[1].data = <<IconicState, 0, 0, 0, 0>>

AllUnset == <<None, None, None, None>>

\* C19: a read of Window.state with no _NET_WM_STATE property answers the
\* empty tuple, a read of Window.desktop with no _NET_WM_DESKTOP property
\* answers 0, and a read of Window.extents with no frame extents under a
\* window manager outside CALCULATE_EXTENTS hands four unset values to
\* Extents and returns the extents made of them.
C19_DefaultsOfAbsentProperties ==
    [][ /\ (tpc' = "done" /\ tCall'.op = "state" /\ ~tCall'.property.present)
            => tResult' = [kind |-> "CustomTuple", value |-> <<>>]
        /\ (tpc' = "done" /\ tCall'.op = "desktop" /\ ~tCall'.property.present)
            => tResult' = [kind |-> "int", value |-> 0]
        /\ (epc = "e315" /\ extents = <<>> /\ wm_type \notin CALCULATE_EXTENTS)
            => (epc' = "e341" /\ extents' = AllUnset)
        /\ (epc = "e341" /\ extents = AllUnset)
            => ( /\ epc' = "done"
                 /\ eResult'.kind = "Extents"
                 /\ eResult'.fields = AllUnset ) ]_vars

C19_Witness ==
    /\ epc = "done"
    /\ wm_type = METACITY
    /\ eResult.kind = "Extents"
    /\ eResult.fields = AllUnset


(***************************************************************************)
(* Properties of Config.load.                                              *)
(***************************************************************************)
\* the section of the file is in Config.sections under its lower-cased name
PresentSection(i) ==
    /\ LowerName(lFile[i].name) \in DOMAIN lSections
    /\ lSections[LowerName(lFile[i].name)].section = lFile[i].name

\* no entry of Config.sections was made of the section of the file
AbsentSection(i) ==
    \A k \in DOMAIN lSections : lSections[k].section # lFile[i].name

\* a later section of the file that could be constructed has the same
\* lower-cased name
Replaced(i) ==
    \E j \in DOMAIN lFile :
        /\ j > i
        /\ lFile[j].valid
        /\ LowerName(lFile[j].name) = LowerName(lFile[i].name)

\* load runs to its end: every section was passed over once
Loaded == lpc = "done" => (lTodo = <<>> /\ lConfig = <<>>)

\* C20 as stated: when the Section of some section cannot be constructed,
\* load still ends, that section is absent from Config.sections and every
\* section that can be constructed is present under its lower-cased name.
C20_BadSectionSkipped ==
    (lpc = "done" /\ \E i \in DOMAIN lFile : ~lFile[i].valid) =>
        /\ Loaded
        /\ \A i \in DOMAIN lFile :
            IF lFile[i].valid THEN PresentSection(i) ELSE AbsentSection(i)

\* C20, amended: load ends whatever sections fail; a section that cannot be
\* constructed is absent from Config.sections, and a section that can is
\* present under its lower-cased name unless a later section that can be
\* constructed has the same lower-cased name, which then takes its place.
C20_BadSectionSkippedLastWins ==
    lpc = "done" =>
        /\ Loaded
        /\ \A i \in DOMAIN lFile :
            IF lFile[i].valid /\ ~Replaced(i) THEN PresentSection(i)
            ELSE AbsentSection(i)
        /\ \A k \in DOMAIN lSections :
            \E i \in DOMAIN lFile :
                k = LowerName(lFile[i].name) /\ PresentSection(i)

C20_Witness ==
    /\ lpc = "done"
    /\ Len(lFile) = 3
    /\ lFile[1].valid /\ ~lFile[2].valid /\ lFile[3].valid
    /\ lFile[1].name.capitals
    /\ PresentSection(1) /\ AbsentSection(2) /\ PresentSection(3)
    /\ lLogged = <<lFile[2].name>>


RECURSIVE WalkEnd(_, _)
WalkEnd(chain, i) ==
    IF i = Len(chain) \/ ~SameSize(chain[i], chain[i + 1]) THEN i
    ELSE WalkEnd(chain, i + 1)

\* C23: the walk goes up over every frame of the size of its child; the
\* extents are unknown exactly when it ends at the root, and are otherwise
\* those calculated from the frame it ends at and that frame's parent.
C23_WalkWholeChain ==
    hpc = "done" =>
        LET end == WalkEnd(hChain, 1)
        IN  /\ hResult.kind = "Extents"
            /\ Known(hResult) <=> end # Len(hChain)
            /\ end # Len(hChain)
                => hResult.fields = Calculated(hChain[end], hChain[end + 1])


(***************************************************************************)
(* Properties of WindowManager.desktop_layout.                             *)
(***************************************************************************)
ReportedCols == oCall.layout.value[2]
ReportedRows == oCall.layout.value[3]

\* C25: when exactly one of columns and rows is reported as 0 the layout
\* returned keeps the other, and gives the missing one the least value for
\* which columns times rows holds every desktop; a dimension reported
\* non-zero is returned as reported.
C25_MissingDimensionInferred ==
    (oCall.op = "desktop_layout" /\ oCall.layout.present) =>
        /\ (ReportedCols # 0 /\ oResult.kind = "Layout")
            => oResult.cols = ReportedCols
        /\ (ReportedRows # 0 /\ oResult.kind = "Layout")
            => oResult.rows = ReportedRows
        /\ (ReportedCols = 0) # (ReportedRows = 0)
            => /\ oResult.kind = "Layout"
               /\ oResult.cols * oResult.rows >= oCall.desktops
               /\ ReportedCols = 0
                    => (oResult.cols - 1) * oResult.rows < oCall.desktops
               /\ ReportedRows = 0
                    => oResult.cols * (oResult.rows - 1) < oCall.desktops

C25_Witness ==
    /\ oCall.op = "desktop_layout"
    /\ oCall.layout.present
    /\ ReportedCols = 0 /\ ReportedRows = 2
    /\ oCall.desktops = 5
    /\ oResult.kind = "Layout"
    /\ oResult.cols = 3 /\ oResult.rows = 2


(***************************************************************************)
(* Properties of Section.__init__.                                         *)
(***************************************************************************)
\* C29: a section constructed from data giving gravity or position has
\* direction, position and gravity all set, and one giving only position
\* has direction equal to that position.
C29_FallbacksComplete ==
    (kSection.kind = "Section" /\ (kData.gravity # "" \/ kData.position # ""))
        => /\ kSection.gravity # None
           /\ kSection.position # None
           /\ kSection.direction # None
           /\ (kData.gravity = "" /\ kData.direction = "")
                => kSection.direction = GravityParse(kData.position)

====
